---- MODULE Spec2Model ----
(***************************************************************************)
(* Semantic result cache over a Milvus collection (maior/milvusmanager).   *)
(*                                                                         *)
(* The model follows src/cache_manager.py (CacheManager),                   *)
(* src/vector_store.py (VectorStore), src/manage_cache.py (the             *)
(* administrator's CacheManager) and src/milvus_client.py                  *)
(* (MilvusClientSingleton).  The Milvus collection is the shared state;    *)
(* several workers call the cache against the same collection.             *)
(*                                                                         *)
(* Numbers: vector components are in tenths, distances and scores in       *)
(* hundredths (0.7 is 70, 1.0 is 100).  Milvus' L2 metric reports the      *)
(* squared Euclidean distance, which is what hit.score carries.            *)
(***************************************************************************)
EXTENDS Integers, Sequences, FiniteSets, TLC

VARIABLES
    store,   \* the rows of the collection, in insertion order
    clock,   \* the last reading of datetime.now()
    pc,      \* per worker: where it stands inside search_cache / increment_hit_count
    loc,     \* per worker: the locals of the call in flight
    ret,     \* the value returned by the call that returned last, with its arguments
             \* and, of a search, whether the call into the index succeeded
    acked,   \* per row: how many increment_hit_count calls on it returned True
    client   \* the class MilvusClientSingleton: _instance and _initialized, with
             \* the objects made, the runs of _connect and _init_collection, and
             \* the objects its calls returned

vars == <<store, clock, pc, loc, ret, acked, client>>

(* ------------------------------ bounds -------------------------------- *)
MaxStore == 2       \* rows the collection may hold
MaxHitCount == 2    \* an increment starts only below this stored hit_count

(* ------------------------- program constants -------------------------- *)
MinSimilarity == 70     \* if similarity_score < 0.7
TopK == 5               \* top_k=5 in search_cache
InitialHitCount == 1    \* hit_count=1
InitialRelevance == 100 \* relevance_score=1.0
MaxDistance == 150      \* if hit.score < 1.5 in hybrid_search

(* --------------------------- input domains ---------------------------- *)
Workers == {"w1", "w2"}
StoredVectors == {<<0, 0>>, <<10, 0>>}
QueryVectors == {<<0, 0>>, <<15, 0>>}
\* scopes entries are added under, and scopes lookups are made under
AddScopes == {<<"a@x", "p1">>, <<"a@x", "p2">>}
Scopes == AddScopes \cup {<<"b@x", "p1">>}
QueryTexts == {"q"}
\* the readings datetime.now() can give
Times == {0, 1}

\* the answer cached for a query text (its text and embedding), where the
\* answer plays no part
ResultTextOf(query_text) == "r"
ResultVectorOf(query_text) == <<0, 0>>
\* pdf_names=[] and cache_management={} in every call
NoPdfNames == <<>>
NoCacheManagement == [kind |-> "dict", val |-> <<>>]

NoId == <<>>
NoEntry == [none |-> TRUE]
NoCall == [op |-> "none"]

(* ------------------------ pure helper functions ----------------------- *)

\* collection.search with metric_type L2: the squared Euclidean distance
RECURSIVE L2Distance(_, _)
L2Distance(u, v) ==
    IF u = <<>> THEN 0
    ELSE (Head(u) - Head(v)) * (Head(u) - Head(v)) + L2Distance(Tail(u), Tail(v))

\* sha256 of "query_text:email:project_id:now", taken as collision free: the
\* digest is determined by, and determines, the four parts
GenerateQueryId(query_text, email, project_id, now) ==
    <<query_text, email, project_id, now>>

\* expr = 'email == "<email>" && project_id == "<project_id>"'
ScopeExpr(email, project_id) == [email |-> email, project_id |-> project_id]

\* a filter that forgets the project_id clause
MatchesExpr_EmailOnly(row, expr) ==
    row.email = expr.email

\* the rows an expr selects
MatchesExpr(row, expr) ==
    /\ row.email = expr.email
    /\ row.project_id = expr.project_id

Min(a, b) == IF a < b THEN a ELSE b

\* One hit of collection.search, as search_similar maps it to a dict
HitOf(i, query_vector) ==
    [id |-> store[i].id,
     score |-> L2Distance(query_vector, store[i].query_vector),
     query_text |-> store[i].query_text,
     email |-> store[i].email,
     result_text |-> store[i].result_text,
     metadata |-> store[i].metadata,
     created_at |-> store[i].created_at,
     project_id |-> store[i].project_id]

\* The rankings collection.search may return: the limit nearest rows that
\* satisfy expr, by ascending distance; rows at equal distance in any order.
IndexRankings(query_vector, expr, limit) ==
    LET cand == {i \in 1..Len(store) : MatchesExpr(store[i], expr)}
        n == Min(limit, Cardinality(cand))
        d(i) == L2Distance(query_vector, store[i].query_vector)
    IN {s \in [1..n -> cand] :
          /\ \A i, j \in 1..n : i < j => (s[i] # s[j] /\ d(s[i]) <= d(s[j]))
          /\ \A c \in cand : (\A i \in 1..n : s[i] # c) => (\A i \in 1..n : d(s[i]) <= d(c))}

\* an index failure that goes unnoticed: the hits come back all the same
SearchSimilar_FailureIgnored(query_vector, expr, top_k, index_ok) ==
    {[k \in 1..Len(s) |-> HitOf(s[k], query_vector)] :
        s \in IndexRankings(query_vector, expr, top_k)}

\* VectorStore.search_similar: the list of hit dicts, or [] when the index
\* call raises
SearchSimilar(query_vector, expr, top_k, index_ok) ==
    IF index_ok
    THEN {[k \in 1..Len(s) |-> HitOf(s[k], query_vector)] :
             s \in IndexRankings(query_vector, expr, top_k)}
    ELSE {<<>>}

\* the comparison turned around
IsMiss_Inverted(similarity_score) == similarity_score > MinSimilarity

\* if similarity_score < 0.7: return CacheSearchResult(found=False)
IsMiss(similarity_score) == similarity_score < MinSimilarity

\* metadata.get(key, default)
Get(metadata, key, default) ==
    IF key \in DOMAIN metadata THEN metadata[key] ELSE default

\* metadata[key] = value
SetKey(metadata, key, value) ==
    [k \in DOMAIN metadata \cup {key} |-> IF k = key THEN value ELSE metadata[k]]

EmbeddingDim == 768  \* [0.0] * 768 in _generate_embedding

\* the vector _generate_embedding falls back to
ZeroVector == [k \in 1..EmbeddingDim |-> 0]

\* a fallback of the size of the vectors in use here, not of 768 components
GenerateEmbedding_Short(text, embed_ok) ==
    IF embed_ok THEN ResultVectorOf(text) ELSE <<0, 0>>

\* CacheManager._generate_embedding: the provider's embedding of the text,
\* or the zero vector when the provider raises
GenerateEmbedding(text, embed_ok) ==
    IF embed_ok THEN ResultVectorOf(text) ELSE ZeroVector

\* the counter stepped the wrong way
NewHitCount_Decrement(current_hits) == current_hits - 1

\* metadata["hit_count"] = current_hits + 1
NewHitCount(current_hits) == current_hits + 1

(* ---------------------------- Python values --------------------------- *)

\* The values add_to_cache receives as references, cited_refs and pdf_info.
\* A value is a record of its type (kind) and its content (val); a float is
\* held in hundredths, a list or tuple as a sequence, a dict as the function
\* from its keys.  A list that the code only iterates is a plain sequence.
PyNone == [kind |-> "None", val |-> "None"]
IntV(n) == [kind |-> "int", val |-> n]
FloatV(x) == [kind |-> "float", val |-> x]
StrV(s) == [kind |-> "str", val |-> s]
ListV(s) == [kind |-> "list", val |-> s]
TupleV(s) == [kind |-> "tuple", val |-> s]
DictV(f) == [kind |-> "dict", val |-> f]
EmptyDict == [k \in {} |-> PyNone]

\* an exception raised in place of a value
Raise(e) == [kind |-> "raise", val |-> e]
IsRaise(v) == v.kind = "raise"

\* isinstance(v, (T1, ..., Tn))
IsInstance(v, kinds) == v.kind \in kinds

\* the truth value of v under "if v"
Truthy(v) ==
    CASE v.kind = "None" -> FALSE
      [] v.kind \in {"int", "float"} -> v.val # 0
      [] v.kind = "str" -> v.val # ""
      [] v.kind \in {"list", "tuple"} -> v.val # <<>>
      [] v.kind = "dict" -> DOMAIN v.val # {}

\* the strings among the inputs that float() parses, with their value
FloatLiterals == [s \in {"0.5", "3"} |-> IF s = "0.5" THEN 50 ELSE 300]

\* the strings among the inputs that int() parses, with their value
IntLiterals == [s \in {"3"} |-> 3]

DecimalDigits == <<"0", "1", "2", "3", "4", "5", "6", "7", "8", "9">>

\* float(v)
PyFloat(v) ==
    CASE v.kind = "float" -> v
      [] v.kind = "int" -> FloatV(v.val * 100)
      [] v.kind = "str" -> IF v.val \in DOMAIN FloatLiterals
                           THEN FloatV(FloatLiterals[v.val])
                           ELSE Raise("ValueError")
      [] OTHER -> Raise("TypeError")

\* int(v), for v >= 0
PyInt(v) ==
    CASE v.kind = "int" -> v
      [] v.kind = "float" -> IntV(v.val \div 100)
      [] v.kind = "str" -> IF v.val \in DOMAIN IntLiterals
                           THEN IntV(IntLiterals[v.val])
                           ELSE Raise("ValueError")
      [] OTHER -> Raise("TypeError")

\* str(v), for a str, None or an int of one digit
PyStr(v) ==
    CASE v.kind = "str" -> v
      [] v.kind = "None" -> StrV("None")
      [] v.kind = "int" -> StrV(DecimalDigits[v.val + 1])

(* ------------------------- input normalization ------------------------ *)

\* "page": int(ref[3]) if len(ref) > 3 and ref[3] else None
PageOf(s) ==
    IF Len(s) > 3 /\ Truthy(s[4]) THEN PyInt(s[4]) ELSE PyNone

\* One element of references.  The dict display of the list/tuple branch is
\* evaluated key by key; ref[0] on an empty sequence raises IndexError, and
\* float() and int() raise on what they cannot convert.
ProcessReference(ref) ==
    IF IsInstance(ref, {"dict"}) THEN ref
    ELSE IF IsInstance(ref, {"list", "tuple"})
    THEN LET s == ref.val
             text == IF Len(s) > 1 THEN PyStr(s[2]) ELSE StrV("")
             score == IF Len(s) = 0 THEN Raise("IndexError")
                      ELSE IF Truthy(s[1]) THEN PyFloat(s[1]) ELSE FloatV(0)
             file_name == IF Len(s) > 2 THEN PyStr(s[3]) ELSE PyNone
             page == PageOf(s)
         IN IF IsRaise(score) THEN score
            ELSE IF IsRaise(page) THEN page
            ELSE DictV([text |-> text, score |-> score,
                       file_name |-> file_name, page |-> page])
    ELSE DictV([text |-> PyStr(ref), score |-> FloatV(0),
               file_name |-> PyNone, page |-> PyNone])

\* the loop over references: the processed list, or the exception that ends
\* the loop
ProcessReferences(references) ==
    LET processed == [i \in 1..Len(references) |-> ProcessReference(references[i])]
    IN IF \E i \in 1..Len(references) : IsRaise(processed[i])
       THEN [ok |-> FALSE, val |-> <<>>]
       ELSE [ok |-> TRUE, val |-> processed]

\* an update that keeps the value already there
UpdateDict_KeepFirst(d, item) ==
    [k \in DOMAIN d \cup DOMAIN item |-> IF k \in DOMAIN d THEN d[k] ELSE item[k]]

\* processed_pdf_info.update(item)
UpdateDict(d, item) ==
    [k \in DOMAIN d \cup DOMAIN item |-> IF k \in DOMAIN item THEN item[k] ELSE d[k]]

\* the loop over a pdf_info list: dict items are merged, others skipped
RECURSIVE ProcessPdfList(_, _)
ProcessPdfList(items, processed_pdf_info) ==
    IF items = <<>> THEN processed_pdf_info
    ELSE ProcessPdfList(Tail(items),
                        IF IsInstance(Head(items), {"dict"})
                        THEN UpdateDict(processed_pdf_info, Head(items).val)
                        ELSE processed_pdf_info)

\* pdf_info: a list is merged, a dict is taken as it is, anything else is
\* wrapped
ProcessPdfInfo(pdf_info) ==
    IF IsInstance(pdf_info, {"list"})
    THEN DictV(ProcessPdfList(pdf_info.val, EmptyDict))
    ELSE IF IsInstance(pdf_info, {"dict"}) THEN pdf_info
    ELSE DictV([info |-> PyStr(pdf_info)])

\* an int taken for text
ProcessCitedRef_IntAsText(ref) ==
    IF IsInstance(ref, {"dict"}) THEN ref
    ELSE DictV([text |-> PyStr(ref), index |-> PyNone,
               page |-> PyNone, file_name |-> PyNone])

\* One element of cited_refs
ProcessCitedRef(ref) ==
    IF IsInstance(ref, {"dict"}) THEN ref
    ELSE IF IsInstance(ref, {"int"})
    THEN DictV([index |-> ref, text |-> PyNone,
               page |-> PyNone, file_name |-> PyNone])
    ELSE DictV([text |-> PyStr(ref), index |-> PyNone,
               page |-> PyNone, file_name |-> PyNone])

\* the loop over cited_refs
ProcessCitedRefs(cited_refs) ==
    [i \in 1..Len(cited_refs) |-> ProcessCitedRef(cited_refs[i])]

(* ------------------------------ the store ----------------------------- *)

\* VectorStore.insert_entry: the row built from a CacheEntry (metadata dict
\* and column data); last_accessed is not among the columns
RowOf(entry) ==
    [id |-> entry.query_id,
     query_vector |-> entry.query_vector,
     query_text |-> entry.query_text,
     result_vector |-> entry.result_vector,
     result_text |-> entry.result_text,
     email |-> entry.email,
     metadata |-> [references |-> entry.references,
                   pdf_names |-> entry.pdf_names,
                   cited_refs |-> entry.cited_refs,
                   pdf_info |-> entry.pdf_info,
                   hit_count |-> entry.hit_count,
                   relevance_score |-> entry.relevance_score,
                   cache_management |-> entry.cache_management],
     created_at |-> entry.created_at,
     project_id |-> entry.project_id]

\* VectorStore.insert_entry under the three outcomes of its Milvus calls:
\*   "ok"          every call succeeds
\*   "fail_before" load, num_entities or collection.insert raises
\*   "fail_after"  collection.insert succeeded and flush, num_entities or a
\*                 verification query raises
\* The result is the collection afterwards; it raises unless outcome = "ok".
InsertEntry(entry, outcome) ==
    IF outcome = "fail_before" THEN store ELSE Append(store, RowOf(entry))

InsertOutcomes == {"ok", "fail_before", "fail_after"}

\* collection.update(expr='id == "<entry_id>"', data={"metadata": metadata})
UpdateMetadata(entry_id, metadata) ==
    [i \in 1..Len(store) |->
        IF store[i].id = entry_id
        THEN [store[i] EXCEPT !.metadata = metadata]
        ELSE store[i]]

\* collection.query(expr='id == "<entry_id>"', output_fields=["metadata"])
QueryById(entry_id) ==
    SelectSeq(store, LAMBDA row : row.id = entry_id)

(* ---------------------------- hybrid_search --------------------------- *)

\* the characters of the texts and keywords in use
Chars(text) ==
    CASE text = "" -> <<>>
      [] text = "q" -> <<"q">>
      [] text = "r" -> <<"r">>
      [] text = "a" -> <<"a">>
      [] text = "c" -> <<"c">>
      [] text = "z" -> <<"z">>
      [] text = "ab" -> <<"a", "b">>

\* text like "%keyword%": the keyword occurs somewhere in the text
Like(text, keyword) ==
    LET t == Chars(text)
        k == Chars(keyword)
    IN \E i \in 0..(Len(t) - Len(k)) : SubSeq(t, i + 1, i + Len(k)) = k

\* expr=None: collection.search without a filter
NoFilter == [op |-> "all"]

\* '(query_text like "%<keyword>%" or result_text like "%<keyword>%")'
KeywordCondition(keyword) ==
    [op |-> "or",
     left |-> [op |-> "like", field |-> "query_text", keyword |-> keyword],
     right |-> [op |-> "like", field |-> "result_text", keyword |-> keyword]]

\* op.join(conditions), each condition standing in its own parentheses
RECURSIVE Join(_, _)
Join(op, conditions) ==
    IF Len(conditions) = 1 THEN conditions[1]
    ELSE [op |-> op, left |-> conditions[1], right |-> Join(op, Tail(conditions))]

\* the keyword conditions joined with "and"
FinalExpr_AllKeywords(expr, keywords) ==
    LET keyword_conditions == [i \in 1..Len(keywords) |-> KeywordCondition(keywords[i])]
    IN IF keyword_conditions # <<>>
       THEN LET keyword_expr == Join("and", keyword_conditions)
            IN IF expr # NoFilter
               THEN [op |-> "and", left |-> keyword_expr, right |-> expr]
               ELSE keyword_expr
       ELSE expr

\* hybrid_search: final_expr, the filter handed to collection.search, as the
\* expression tree that the string built by the code denotes
FinalExpr(expr, keywords) ==
    LET keyword_conditions == [i \in 1..Len(keywords) |-> KeywordCondition(keywords[i])]
    IN IF keyword_conditions # <<>>
       THEN LET keyword_expr == Join("or", keyword_conditions)
            IN IF expr # NoFilter
               THEN [op |-> "and", left |-> keyword_expr, right |-> expr]
               ELSE keyword_expr
       ELSE expr

\* the rows a filter selects; a filter without operator is a scope expr
RECURSIVE Selects(_, _)
Selects(row, filter) ==
    IF "op" \notin DOMAIN filter THEN MatchesExpr(row, filter)
    ELSE CASE filter.op = "all" -> TRUE
           [] filter.op = "like" -> Like(row[filter.field], filter.keyword)
           [] filter.op = "or" -> Selects(row, filter.left) \/ Selects(row, filter.right)
           [] filter.op = "and" -> Selects(row, filter.left) /\ Selects(row, filter.right)

\* One hit of the search on result_vector, as hybrid_search maps it to a dict
HybridHitOf(i, query_vector) ==
    [id |-> store[i].id,
     score |-> L2Distance(query_vector, store[i].result_vector),
     query_text |-> store[i].query_text,
     email |-> store[i].email,
     result_text |-> store[i].result_text,
     metadata |-> store[i].metadata,
     created_at |-> store[i].created_at,
     project_id |-> store[i].project_id]

\* The rankings collection.search may return on anns_field result_vector:
\* the limit nearest rows the filter selects, by ascending distance; rows at
\* equal distance in any order.
HybridRankings(query_vector, final_expr, limit) ==
    LET cand == {i \in 1..Len(store) : Selects(store[i], final_expr)}
        n == Min(limit, Cardinality(cand))
        d(i) == L2Distance(query_vector, store[i].result_vector)
    IN {s \in [1..n -> cand] :
          /\ \A i, j \in 1..n : i < j => (s[i] # s[j] /\ d(s[i]) <= d(s[j]))
          /\ \A c \in cand : (\A i \in 1..n : s[i] # c) => (\A i \in 1..n : d(s[i]) <= d(c))}

\* what results[0] of collection.search can be
HybridIndexHits(query_vector, top_k, final_expr) ==
    {[k \in 1..Len(s) |-> HybridHitOf(s[k], query_vector)] :
        s \in HybridRankings(query_vector, final_expr, top_k)}

\* a threshold that lets the distance 1.5 itself through
KeepsHit_Inclusive(score) == score <= MaxDistance

\* if hit.score < 1.5
KeepsHit(score) == score < MaxDistance

\* a filter that hands the kept hits back farthest first
FilteredResults_Reversed(hits) ==
    LET kept == SelectSeq(hits, LAMBDA hit : KeepsHit(hit.score))
    IN [k \in 1..Len(kept) |-> kept[Len(kept) + 1 - k]]

\* filtered_results: the hits that pass the threshold, in the order of hits
FilteredResults(hits) ==
    SelectSeq(hits, LAMBDA hit : KeepsHit(hit.score))

\* what hybrid_search returns: filtered_results[:top_k], or [] when load or
\* the index call raised
HybridResults(hits, top_k, index_ok) ==
    IF index_ok
    THEN LET filtered_results == FilteredResults(hits)
         IN SubSeq(filtered_results, 1, Min(top_k, Len(filtered_results)))
    ELSE <<>>

Idle == \A w \in Workers : pc[w] = "idle"

\* The class before anything was constructed: _instance = None (0 here; the
\* objects are numbered as super().__new__ makes them), _initialized = False
FreshClient ==
    [instance |-> 0, initialized |-> FALSE, objects |-> 0,
     connects |-> 0, collection_inits |-> 0, returned |-> {}]

\* The class as the cache managers leave it after their construction: one
\* object, connected once, handed out
ConnectedClient ==
    [instance |-> 1, initialized |-> TRUE, objects |-> 1,
     connects |-> 1, collection_inits |-> 1, returned |-> {1}]

(* -------------------------------- Init -------------------------------- *)

Init ==
    /\ store = <<>>
    /\ clock = 0
    /\ pc = [w \in Workers |-> "idle"]
    /\ loc = [w \in Workers |-> NoCall]
    /\ ret = NoCall
    /\ acked = <<>>
    /\ client = ConnectedClient

(* ----------------------------- add_to_cache --------------------------- *)

\* a clock that may run backwards between two readings
SuccessiveReadings_AnyOrder(t_id, t_created, t_accessed) ==
    clock <= t_id

\* add_to_cache reads datetime.now() three times, for the id, for created_at
\* and for last_accessed, in this order; the clock does not run backwards
SuccessiveReadings(t_id, t_created, t_accessed) ==
    clock <= t_id /\ t_id <= t_created /\ t_created <= t_accessed

\* CacheManager.add_to_cache.  The inputs are normalized first; an exception
\* raised there is caught by the handler around the whole body, which
\* returns False before any entry is built.  The three datetime.now() calls
\* (the id, created_at, last_accessed) are three readings of the clock.
\* pdf_names and cache_management are passed on as they are.
AddToCacheWith(w, query_text, query_vector, result_vector, result_text, email, project_id, references, cited_refs, pdf_info) ==
    /\ pc[w] = "idle"
    /\ Len(store) < MaxStore
    /\ LET processed_references == ProcessReferences(references)
           processed_pdf_info == ProcessPdfInfo(pdf_info)
           processed_cited_refs == ProcessCitedRefs(cited_refs)
       IN IF ~processed_references.ok
          THEN /\ ret' = [op |-> "add_to_cache", ok |-> FALSE, entry |-> NoEntry]
               /\ UNCHANGED <<store, acked, clock>>
          ELSE \E t_id \in Times, t_created \in Times, t_accessed \in Times,
                  outcome \in InsertOutcomes :
                 /\ SuccessiveReadings(t_id, t_created, t_accessed)
                 /\ LET entry == [query_id |-> GenerateQueryId(query_text, email, project_id, t_id),
                                  query_text |-> query_text,
                                  query_vector |-> query_vector,
                                  result_vector |-> result_vector,
                                  email |-> email,
                                  result_text |-> result_text,
                                  references |-> processed_references.val,
                                  pdf_names |-> NoPdfNames,
                                  cited_refs |-> processed_cited_refs,
                                  pdf_info |-> processed_pdf_info,
                                  created_at |-> t_created,
                                  last_accessed |-> t_accessed,
                                  hit_count |-> InitialHitCount,
                                  relevance_score |-> InitialRelevance,
                                  project_id |-> project_id,
                                  cache_management |-> NoCacheManagement]
                    IN /\ store' = InsertEntry(entry, outcome)
                       /\ acked' = IF Len(store') > Len(store) THEN Append(acked, 0) ELSE acked
                       /\ clock' = t_accessed
                       /\ ret' = [op |-> "add_to_cache",
                                  ok |-> (outcome = "ok"),
                                  entry |-> entry]
    /\ UNCHANGED <<pc, loc, client>>

\* add_to_cache with references, cited_refs and pdf_info already in canonical
\* shape (here: empty)
AddToCache(w, query_text, query_vector, email, project_id) ==
    AddToCacheWith(w, query_text, query_vector, ResultVectorOf(query_text),
                   ResultTextOf(query_text), email, project_id,
                   <<>>, <<>>, DictV(EmptyDict))

(* ------------------ search_cache and increment_hit_count -------------- *)

\* The shapes in which collection.query hands back the JSON field metadata:
\* the dict, or the JSON text of it (which manage_cache.py parses with
\* json.loads when it meets it)
ReadShapes == {"dict", "str"}

\* the metadata of a row as the query returns it in the given shape
ReadBack(metadata, shape) ==
    IF shape = "dict" THEN metadata ELSE StrV(metadata)

\* isinstance(metadata, dict), for what ReadBack gives
IsMapping(metadata) == "kind" \notin DOMAIN metadata

\* search_cache, from its tail: the CacheEntry rebuilt from best_match and the
\* CacheSearchResult(found=True, ...).  query_vector and cache_management are
\* the arguments of the lookup, result_vector is the embedding made of the
\* lookup's query_text; the other fields come from best_match.
HitResult(call, now) ==
    [op |-> "search_cache",
     found |-> TRUE,
     entry |-> [query_id |-> call.best_match.id,
                query_text |-> call.best_match.query_text,
                query_vector |-> call.query_vector,
                result_vector |-> call.result_vector,
                email |-> call.best_match.email,
                result_text |-> call.best_match.result_text,
                references |-> Get(call.best_match.metadata, "references", <<>>),
                pdf_names |-> Get(call.best_match.metadata, "pdf_names", <<>>),
                cited_refs |-> Get(call.best_match.metadata, "cited_refs", <<>>),
                pdf_info |-> Get(call.best_match.metadata, "pdf_info", DictV(EmptyDict)),
                created_at |-> call.best_match.created_at,
                last_accessed |-> now,
                hit_count |-> Get(call.best_match.metadata, "hit_count", 0) + 1,
                relevance_score |-> call.best_match.score,
                project_id |-> call.best_match.project_id,
                cache_management |-> call.cache_management],
     similarity_score |-> call.best_match.score,
     query_vector |-> call.query_vector,
     email |-> call.email,
     project_id |-> call.project_id,
     nresults |-> call.nresults,
     best_id |-> call.best_match.id,
     best_score |-> call.best_match.score,
     after_add |-> call.after_add,
     index_ok |-> call.index_ok,
     embed_ok |-> call.embed_ok,
     raised |-> FALSE]

\* CacheSearchResult(found=False), kept with the arguments of the lookup, what
\* the index returned, and whether the index and the embedding call answered
MissResult(query_vector, email, project_id, results, after_add, index_ok, embed_ok) ==
    [op |-> "search_cache",
     found |-> FALSE,
     entry |-> NoEntry,
     raised |-> FALSE,
     query_vector |-> query_vector,
     email |-> email,
     project_id |-> project_id,
     nresults |-> Len(results),
     best_id |-> IF results = <<>> THEN NoId ELSE results[1].id,
     best_score |-> IF results = <<>> THEN -1 ELSE results[1].score,
     after_add |-> after_add,
     index_ok |-> index_ok,
     embed_ok |-> embed_ok]

\* CacheSearchResult(found=False) from the handler around the whole body of
\* search_cache, reached after the index search returned call.best_match
RaisedResult(call) ==
    [op |-> "search_cache",
     found |-> FALSE,
     entry |-> NoEntry,
     raised |-> TRUE,
     query_vector |-> call.query_vector,
     email |-> call.email,
     project_id |-> call.project_id,
     nresults |-> call.nresults,
     best_id |-> call.best_match.id,
     best_score |-> call.best_match.score,
     after_add |-> call.after_add,
     index_ok |-> call.index_ok,
     embed_ok |-> call.embed_ok]

\* The id of the entry the last call stored, when that call was a successful
\* add_to_cache with this vector and scope and nothing else is in flight
JustAdded(query_vector, email, project_id) ==
    IF /\ Idle
       /\ ret.op = "add_to_cache"
       /\ ret.ok
       /\ ret.entry.query_vector = query_vector
       /\ ret.entry.email = email
       /\ ret.entry.project_id = project_id
    THEN ret.entry.query_id
    ELSE NoId

\* search_cache up to the call of increment_hit_count: the embedding of
\* query_text (the provider answers or fails, as embed_oks allows), the
\* index search under the scope, and the threshold
SearchCacheWith(w, query_text, query_vector, email, project_id, cache_management, embed_oks) ==
    /\ pc[w] = "idle"
    /\ \E index_ok \in BOOLEAN, embed_ok \in embed_oks :
       \E results \in SearchSimilar(query_vector, ScopeExpr(email, project_id), TopK, index_ok) :
         LET after_add == JustAdded(query_vector, email, project_id) IN
         IF results = <<>> \/ IsMiss(results[1].score)
         THEN /\ ret' = MissResult(query_vector, email, project_id, results,
                                   after_add, index_ok, embed_ok)
              /\ UNCHANGED <<pc, loc>>
         ELSE /\ Get(results[1].metadata, "hit_count", 0) < MaxHitCount
              /\ pc' = [pc EXCEPT ![w] = "inc_query"]
              /\ loc' = [loc EXCEPT ![w] =
                           [op |-> "search_cache",
                            entry_id |-> results[1].id,
                            query_text |-> query_text,
                            query_vector |-> query_vector,
                            result_vector |-> GenerateEmbedding(query_text, embed_ok),
                            email |-> email,
                            project_id |-> project_id,
                            cache_management |-> cache_management,
                            nresults |-> Len(results),
                            best_match |-> results[1],
                            after_add |-> after_add,
                            index_ok |-> index_ok,
                            embed_ok |-> embed_ok]]
              /\ UNCHANGED ret
    /\ UNCHANGED <<store, clock, acked, client>>

\* search_cache for the one query text, without cache_management, against an
\* embedding provider that answers
SearchCache(w, query_vector, email, project_id) ==
    SearchCacheWith(w, "q", query_vector, email, project_id, NoCacheManagement, {TRUE})

\* VectorStore.hybrid_search (its query_text argument is not used).  The
\* value returned is kept with the arguments, the filter handed to the index
\* and the list the index returned (or had returned, had it not failed).
HybridSearch(w, query_vector, top_k, expr, keywords) ==
    /\ pc[w] = "idle"
    /\ \E index_ok \in BOOLEAN :
       LET final_expr == FinalExpr(expr, keywords) IN
       \E hits \in HybridIndexHits(query_vector, top_k, final_expr) :
          ret' = [op |-> "hybrid_search",
                  results |-> HybridResults(hits, top_k, index_ok),
                  hits |-> hits,
                  index_ok |-> index_ok,
                  final_expr |-> final_expr,
                  query_vector |-> query_vector,
                  top_k |-> top_k,
                  expr |-> expr,
                  keywords |-> keywords]
    /\ UNCHANGED <<store, clock, pc, loc, acked, client>>

\* A direct call of increment_hit_count(entry_id), made while the entry's
\* counter is below max_hits (which keeps the counter finite)
IncrementHitCountUpTo(w, entry_id, max_hits) ==
    /\ pc[w] = "idle"
    /\ \A i \in 1..Len(store) :
          store[i].id = entry_id =>
              /\ Get(store[i].metadata, "hit_count", 0) < max_hits
              /\ acked[i] < max_hits
    /\ pc' = [pc EXCEPT ![w] = "inc_query"]
    /\ loc' = [loc EXCEPT ![w] = [op |-> "increment_hit_count", entry_id |-> entry_id]]
    /\ UNCHANGED <<store, clock, ret, acked, client>>

\* A direct call of increment_hit_count(entry_id)
IncrementHitCount(w, entry_id) == IncrementHitCountUpTo(w, entry_id, MaxHitCount)

\* a search_cache that gives up the hit when the increment did not succeed
Return_FailOnAccounting(w, incremented) ==
    /\ pc' = [pc EXCEPT ![w] = "idle"]
    /\ loc' = [loc EXCEPT ![w] = NoCall]
    /\ IF loc[w].op = "increment_hit_count"
       THEN /\ ret' = [op |-> "increment_hit_count",
                       ok |-> incremented,
                       entry_id |-> loc[w].entry_id]
            /\ UNCHANGED clock
       ELSE \E now \in Times :
              /\ clock <= now
              /\ clock' = now
              /\ ret' = IF incremented
                        THEN HitResult(loc[w], now)
                        ELSE [HitResult(loc[w], now) EXCEPT !.found = FALSE,
                                                            !.entry = NoEntry]

\* What the caller of increment_hit_count does with its result: a direct call
\* returns it; search_cache ignores it, rebuilds the entry and reports the
\* hit.  best_match["metadata"].get raises on metadata that is no dict, before
\* datetime.now() is read, and the handler returns the value of RaisedResult.
Return(w, incremented) ==
    /\ pc' = [pc EXCEPT ![w] = "idle"]
    /\ loc' = [loc EXCEPT ![w] = NoCall]
    /\ IF loc[w].op = "increment_hit_count"
       THEN /\ ret' = [op |-> "increment_hit_count",
                       ok |-> incremented,
                       entry_id |-> loc[w].entry_id]
            /\ UNCHANGED clock
       ELSE IF IsMapping(loc[w].best_match.metadata)
            THEN \E now \in Times :
                   /\ clock <= now
                   /\ clock' = now
                   /\ ret' = HitResult(loc[w], now)
            ELSE /\ ret' = RaisedResult(loc[w])
                 /\ UNCHANGED clock

\* increment_hit_count: collection.load() and the query of the metadata,
\* which comes back in one of the given shapes
IncQueryReading(w, shapes) ==
    /\ pc[w] = "inc_query"
    /\ \E query_ok \in BOOLEAN, shape \in shapes :
         LET result == QueryById(loc[w].entry_id) IN
         IF query_ok /\ result # <<>>
         THEN /\ pc' = [pc EXCEPT ![w] = "inc_update"]
              /\ loc' = [loc EXCEPT ![w] =
                           SetKey(loc[w], "metadata",
                                  ReadBack(result[1].metadata, shape))]
              /\ UNCHANGED <<clock, ret>>
         ELSE Return(w, FALSE)
    /\ UNCHANGED <<store, acked, client>>

\* increment_hit_count up to the query, against a driver that hands the
\* metadata back as a dict
IncQuery(w) == IncQueryReading(w, {"dict"})

\* increment_hit_count: metadata that is not a dict is replaced by {}, the
\* counter is stepped, and the metadata is written back
IncUpdate(w) ==
    /\ pc[w] = "inc_update"
    /\ \E update_ok \in BOOLEAN :
         IF update_ok
         THEN LET metadata == IF IsMapping(loc[w].metadata)
                              THEN loc[w].metadata
                              ELSE EmptyDict
                  current_hits == Get(metadata, "hit_count", 0)
              IN /\ store' = UpdateMetadata(loc[w].entry_id,
                                SetKey(metadata, "hit_count", NewHitCount(current_hits)))
                 /\ acked' = [i \in 1..Len(acked) |->
                                IF store[i].id = loc[w].entry_id
                                THEN acked[i] + 1 ELSE acked[i]]
                 /\ Return(w, TRUE)
         ELSE /\ UNCHANGED <<store, acked>>
              /\ Return(w, FALSE)
    /\ UNCHANGED client

(* ------------------------------- Next --------------------------------- *)

\* One worker makes one call after the other.
Next ==
    \/ \E q \in QueryTexts, v \in StoredVectors, sc \in AddScopes :
          AddToCache("w1", q, v, sc[1], sc[2])
    \/ \E v \in QueryVectors, sc \in Scopes : SearchCache("w1", v, sc[1], sc[2])
    \/ \E i \in 1..Len(store) : IncrementHitCount("w1", store[i].id)
    \/ IncQuery("w1")
    \/ IncUpdate("w1")

Spec == Init /\ [][Next]_vars

\* Two workers call the cache against the same collection; their calls
\* interleave at the calls into Milvus.  One scope, one stored vector; w1
\* makes the lookups, w2 calls increment_hit_count (the part of a hit that
\* writes to the store), either adds entries.
ConcurrentNext ==
    \/ \E w \in Workers, q \in QueryTexts :
          AddToCache(w, q, <<0, 0>>, "a@x", "p1")
    \/ \E v \in QueryVectors : SearchCache("w1", v, "a@x", "p1")
    \/ \E i \in 1..Len(store) : IncrementHitCount("w2", store[i].id)
    \/ \E w \in Workers : IncQuery(w)
    \/ \E w \in Workers : IncUpdate(w)

ConcurrentSpec == Init /\ [][ConcurrentNext]_vars

\* Two workers call increment_hit_count on the entries of one scope, one call
\* more per entry than elsewhere: three increments of one entry can overlap.
RaceNext ==
    \/ \E q \in QueryTexts : AddToCache("w1", q, <<0, 0>>, "a@x", "p1")
    \/ \E w \in Workers, i \in 1..Len(store) :
          IncrementHitCountUpTo(w, store[i].id, MaxHitCount + 1)
    \/ \E w \in Workers : IncQuery(w)
    \/ \E w \in Workers : IncUpdate(w)

RaceSpec == Init /\ [][RaceNext]_vars

\* One worker adds entries that carry a reference, a cited reference and a
\* pdf_info, and calls increment_hit_count on them; the metadata query
\* answers in either shape.
ReadBackNext ==
    \/ \E q \in QueryTexts :
          AddToCacheWith("w1", q, <<0, 0>>, ResultVectorOf(q), ResultTextOf(q),
                         "a@x", "p1",
                         <<StrV("t")>>, <<IntV(2)>>, DictV([a |-> IntV(1)]))
    \/ \E i \in 1..Len(store) : IncrementHitCount("w1", store[i].id)
    \/ IncQueryReading("w1", ReadShapes)
    \/ IncUpdate("w1")

ReadBackSpec == Init /\ [][ReadBackNext]_vars

\* The two searches side by side: one worker adds entries under one scope,
\* looks them up with search_cache and searches them with hybrid_search,
\* without keywords or filter.
SearchNext ==
    \/ \E q \in QueryTexts : AddToCache("w1", q, <<0, 0>>, "a@x", "p1")
    \/ \E v \in QueryVectors : SearchCache("w1", v, "a@x", "p1")
    \/ \E q \in QueryTexts :
          HybridSearch("w1", ResultVectorOf(q), TopK, NoFilter, <<>>)
    \/ IncQuery("w1")
    \/ IncUpdate("w1")

SearchSpec == Init /\ [][SearchNext]_vars

\* The retrieval engine on its own: one worker adds answers and searches
\* them by keyword, scope and result vector.
\* An answer is its text, its embedding and the project it is stored under;
\* the embeddings lie at distance 0, 1.0 and 1.5 from the query vector.
HybridAnswers ==
    {<<"ab", <<0, 0, 0>>, "p1">>,
     <<"c", <<10, 0, 0>>, "p1">>,
     <<"ab", <<10, 5, 5>>, "p1">>,
     <<"ab", <<0, 0, 0>>, "p2">>}
HybridTopKs == {1, 2}
HybridExprs == {NoFilter, ScopeExpr("a@x", "p1")}
HybridKeywords == {<<>>, <<"a">>, <<"z", "c">>, <<"c", "a">>}

HybridNext ==
    \/ \E q \in QueryTexts, a \in HybridAnswers :
          AddToCacheWith("w1", q, <<0, 0, 0>>, a[2], a[1], "a@x", a[3],
                         <<>>, <<>>, DictV(EmptyDict))
    \/ \E top_k \in HybridTopKs, expr \in HybridExprs, keywords \in HybridKeywords :
          HybridSearch("w1", <<0, 0, 0>>, top_k, expr, keywords)

HybridSpec == Init /\ [][HybridNext]_vars

\* The input normalizer on its own: add_to_cache is called with references,
\* cited_refs and pdf_info of every shape; one of the three varies at a time.
\* A positional reference is [score, text, file_name, page] cut off anywhere.
ScoreInputs == {FloatV(90), IntV(0), StrV("0.5"), StrV("t")}
TextInputs == {StrV("t"), PyNone}
FileNameInputs == {StrV("f")}
PageInputs == {IntV(3), IntV(0), StrV("x")}
ReferenceSequences ==
    {<<>>}
    \cup {<<a>> : a \in ScoreInputs}
    \cup {<<a, b>> : a \in ScoreInputs, b \in TextInputs}
    \cup {<<a, b, c>> : a \in ScoreInputs, b \in TextInputs, c \in FileNameInputs}
    \cup {<<a, b, c, d>> : a \in ScoreInputs, b \in TextInputs,
                           c \in FileNameInputs, d \in PageInputs}
MappingReference ==
    DictV([text |-> StrV("t"), score |-> FloatV(90),
           file_name |-> StrV("f"), page |-> IntV(0)])
ReferenceItems ==
    {MappingReference, StrV("t"), IntV(3), PyNone}
    \cup {ListV(s) : s \in ReferenceSequences}
    \cup {TupleV(s) : s \in ReferenceSequences}
ReferencePairItems ==
    {MappingReference, StrV("t"),
     ListV(<<FloatV(90), StrV("t"), StrV("f"), IntV(3)>>)}
ReferenceInputs ==
    {<<>>}
    \cup {<<r>> : r \in ReferenceItems}
    \cup {<<r1, r2>> : r1 \in ReferencePairItems, r2 \in ReferencePairItems}
CitedRefItems ==
    {DictV([index |-> IntV(2), text |-> StrV("c")]),
     IntV(2), IntV(0), StrV("c"), PyNone}
CitedRefInputs ==
    {<<>>}
    \cup {<<r>> : r \in CitedRefItems}
    \cup {<<r1, r2>> : r1 \in CitedRefItems, r2 \in CitedRefItems}
PdfInfoItems ==
    {DictV([a |-> IntV(1)]), DictV([b |-> IntV(2)]), DictV([a |-> IntV(3)]),
     StrV("x")}
PdfInfoInputs ==
    {ListV(<<>>)}
    \cup {ListV(<<i1>>) : i1 \in PdfInfoItems}
    \cup {ListV(<<i1, i2>>) : i1 \in PdfInfoItems, i2 \in PdfInfoItems}
    \cup {ListV(<<i1, i2, i3>>) : i1 \in PdfInfoItems, i2 \in PdfInfoItems,
                                  i3 \in PdfInfoItems}
    \cup {DictV([a |-> IntV(1)]), DictV(EmptyDict), StrV("x"), PyNone, IntV(3)}

\* the arguments of the calls of add_to_cache
NormalizerArguments ==
    {[op |-> "add_to_cache", references |-> r,
      cited_refs |-> <<>>, pdf_info |-> DictV(EmptyDict)] : r \in ReferenceInputs}
    \cup {[op |-> "add_to_cache", references |-> <<>>,
           cited_refs |-> c, pdf_info |-> DictV(EmptyDict)] : c \in CitedRefInputs}
    \cup {[op |-> "add_to_cache", references |-> <<>>,
           cited_refs |-> <<>>, pdf_info |-> p] : p \in PdfInfoInputs}

\* the caller of w1 holds the arguments it calls add_to_cache with
NormalizerInit ==
    /\ store = <<>>
    /\ clock = 0
    /\ pc = [w \in Workers |-> "idle"]
    /\ loc \in {[w \in Workers |-> IF w = "w1" THEN a ELSE NoCall] :
                   a \in NormalizerArguments}
    /\ ret = NoCall
    /\ acked = <<>>
    /\ client = ConnectedClient

NormalizerNext ==
    \E q \in QueryTexts :
       AddToCacheWith("w1", q, <<0, 0>>, ResultVectorOf(q), ResultTextOf(q),
                      "a@x", "p1",
                      loc["w1"].references, loc["w1"].cited_refs,
                      loc["w1"].pdf_info)

NormalizerSpec == NormalizerInit /\ [][NormalizerNext]_vars

(* ------------------------------- listing ------------------------------ *)

PageSize == 10       \* self.page_size = 10 in cache_manager.py
AdminPageSize == 20  \* self.page_size = 20 in manage_cache.py
ListingLimit == 100  \* limit: int = 100 of get_all_entries; limit=100 in manage_cache.py

\* the Python slice s[start_idx:end_idx], for indices that are not negative
Slice(s, start_idx, end_idx) ==
    LET lo == Min(start_idx, Len(s))
        hi == Min(end_idx, Len(s))
    IN IF hi <= lo THEN <<>> ELSE SubSeq(s, lo + 1, hi)

\* rows by created_at, newest first
ByCreatedAtDesc(rows) ==
    SortSeq(rows, LAMBDA a, b : a.created_at > b.created_at)

\* The orders in which collection.query(expr="") hands the rows back when
\* the call names no sort: the order of insertion, or newest first.
UnsortedOrders == {"insertion", "created_at_desc"}

\* collection.query(expr="", limit=limit, offset=0, ...): the first limit
\* rows, newest first when sort_fields=["created_at"], sort_orders=["DESC"]
\* is passed, else in the given order of the driver
QueryAll(limit, sorted, order) ==
    SubSeq(IF sorted \/ order = "created_at_desc" THEN ByCreatedAtDesc(store) ELSE store,
           1, Min(limit, Len(store)))

\* the dict both listings build from a row r
ListedEntry(r, metadata) ==
    [id |-> r.id,
     query_text |-> r.query_text,
     result_text |-> r.result_text,
     email |-> r.email,
     created_at |-> r.created_at,
     project_id |-> r.project_id,
     metadata |-> metadata]

\* a stored string that is no JSON text: json.loads raises on it
NotJson == [kind |-> "str", val |-> [text |-> "{"]]

\* manage_cache.py: metadata that comes as a string is parsed with
\* json.loads, and is {} when that raises
ParseMetadata(metadata) ==
    IF IsMapping(metadata) THEN metadata
    ELSE IF metadata = NotJson THEN EmptyDict
    ELSE metadata.val

\* the dicts get_all_entries builds from the rows of the query
ListedEntries(results) ==
    [k \in 1..Len(results) |-> ListedEntry(results[k], results[k].metadata)]

\* VectorStore.get_all_entries(limit, offset=0): [] for an empty collection
\* and when a Milvus call raises
GetAllEntries(limit, query_ok) ==
    IF Len(store) = 0 \/ ~query_ok THEN <<>>
    ELSE ListedEntries(QueryAll(limit, TRUE, "created_at_desc"))

\* the page count as the callers of both listings compute it:
\* math.ceil(total_count / page_size)
TotalPages(total_count, page_size) == (total_count + page_size - 1) \div page_size

\* the value a listing returns, with the call it answers
Listed(listing, page, entries, total_count, query_ok) ==
    [op |-> "get_cache_entries", listing |-> listing, page |-> page,
     entries |-> entries, total_count |-> total_count, ok |-> query_ok]

\* get_cache_entries of cache_manager.py: every entry of the page gets a
\* result_vector, the embedding of its result_text
WithResultVectors(page_entries, embed_ok) ==
    [k \in 1..Len(page_entries) |->
        SetKey(page_entries[k], "result_vector",
               GenerateEmbedding(page_entries[k].result_text, embed_ok))]

\* get_cache_entries of cache_manager.py, from the list get_all_entries
\* returned: the count, the slice of the page, and the pair returned
PageOfEntries(all_entries, page, query_ok, embed_ok) ==
    LET total_count == Len(all_entries)
        start_idx == (page - 1) * PageSize
        end_idx == Min(start_idx + PageSize, total_count)
        page_entries == Slice(all_entries, start_idx, end_idx)
    IN IF total_count = 0
       THEN Listed("core", page, <<>>, 0, query_ok)
       ELSE Listed("core", page, WithResultVectors(page_entries, embed_ok),
                   total_count, query_ok)

\* CacheManager.get_cache_entries of cache_manager.py
GetCacheEntries(w, page) ==
    /\ pc[w] = "idle"
    /\ \E query_ok \in BOOLEAN, embed_ok \in BOOLEAN :
         ret' = PageOfEntries(GetAllEntries(ListingLimit, query_ok), page,
                              query_ok, embed_ok)
    /\ UNCHANGED <<store, clock, pc, loc, acked, client>>

\* the entries get_cache_entries of manage_cache.py makes of the rows of
\* its page
ProcessedResults(page_entries) ==
    [k \in 1..Len(page_entries) |->
        ListedEntry(page_entries[k], ParseMetadata(page_entries[k].metadata))]

\* get_cache_entries of manage_cache.py, from the rows the query returned
AdminPageOfEntries(results, page, query_ok) ==
    LET total_count == Len(store)
        offset == (page - 1) * AdminPageSize
        start_idx == offset
        end_idx == Min(offset + AdminPageSize, Len(results))
    IN IF total_count = 0 \/ ~query_ok
       THEN Listed("admin", page, <<>>, 0, query_ok)
       ELSE Listed("admin", page,
                   ProcessedResults(Slice(results, start_idx, end_idx)),
                   total_count, query_ok)

\* CacheManager.get_cache_entries of manage_cache.py
AdminGetCacheEntries(w, page) ==
    /\ pc[w] = "idle"
    /\ \E query_ok \in BOOLEAN, order \in UnsortedOrders :
         ret' = AdminPageOfEntries(QueryAll(ListingLimit, FALSE, order), page, query_ok)
    /\ UNCHANGED <<store, clock, pc, loc, acked, client>>

\* the numbers of entries the listed collections hold
Populations == {0, 1, 2, 25, 100, 101}

\* the pages asked for
ListedPages == 1..11

\* the k-th entry stored: one add_to_cache per tick of the clock
StoredEntry(k) ==
    [query_id |-> GenerateQueryId("q", "a@x", "p1", k),
     query_text |-> "q",
     query_vector |-> <<0, 0>>,
     result_vector |-> ResultVectorOf("q"),
     email |-> "a@x",
     result_text |-> ResultTextOf("q"),
     references |-> <<>>,
     pdf_names |-> NoPdfNames,
     cited_refs |-> <<>>,
     pdf_info |-> DictV(EmptyDict),
     created_at |-> k,
     last_accessed |-> k,
     hit_count |-> InitialHitCount,
     relevance_score |-> InitialRelevance,
     project_id |-> "p1",
     cache_management |-> NoCacheManagement]

\* a collection that add_to_cache has filled with n entries
ListingInit ==
    /\ \E n \in Populations : store = [k \in 1..n |-> RowOf(StoredEntry(k))]
    /\ clock = Len(store)
    /\ pc = [w \in Workers |-> "idle"]
    /\ loc = [w \in Workers |-> NoCall]
    /\ ret = NoCall
    /\ acked = [k \in 1..Len(store) |-> 0]
    /\ client = ConnectedClient

\* the two listings, page by page, over a collection that does not change
ListingNext ==
    \/ \E page \in ListedPages : GetCacheEntries("w1", page)
    \/ \E page \in ListedPages : AdminGetCacheEntries("w1", page)

ListingSpec == ListingInit /\ [][ListingNext]_vars

(* ------------------- the administrative operations -------------------- *)

\* an id under which nothing was ever stored
MissingId == GenerateQueryId("q", "a@x", "p1", -1)

\* the places of the rows collection.delete(expr='id == "<entry_id>"') leaves
KeptPlaces(entry_id) ==
    SelectSeq([i \in 1..Len(store) |-> i], LAMBDA i : store[i].id # entry_id)

\* CacheManager.delete_entry of manage_cache.py: load and delete, True
\* unless one of the two raises
DeleteEntry(w, entry_id) ==
    /\ pc[w] = "idle"
    /\ \E delete_ok \in BOOLEAN :
         LET kept == IF delete_ok THEN KeptPlaces(entry_id)
                     ELSE [i \in 1..Len(store) |-> i]
         IN /\ store' = [k \in 1..Len(kept) |-> store[kept[k]]]
            /\ acked' = [k \in 1..Len(kept) |-> acked[kept[k]]]
            /\ ret' = [op |-> "delete_entry", ok |-> delete_ok, entry_id |-> entry_id]
    /\ UNCHANGED <<clock, pc, loc, client>>

TextWidth == 100  \* the texts search_entries returns are cut at 100 characters

\* text[:100] + "..." if len(text) > 100 else text
Truncated(text) ==
    IF Len(Chars(text)) > TextWidth
    THEN [head |-> SubSeq(Chars(text), 1, TextWidth), tail |-> "..."]
    ELSE text

\* collection.query(expr='query_text like "%<query>%" or result_text like
\* "%<query>%"', limit=page_size, sort_fields=["created_at"],
\* sort_orders=["DESC"])
QueryLike(query, limit) ==
    Slice(ByCreatedAtDesc(SelectSeq(store, LAMBDA row :
              Like(row.query_text, query) \/ Like(row.result_text, query))),
          0, limit)

\* the list search_entries makes of the rows; r["metadata"].get raises on
\* metadata that is no dict, and the handler returns []
FoundEntries(results) ==
    IF \A k \in 1..Len(results) : IsMapping(results[k].metadata)
    THEN [k \in 1..Len(results) |->
             [id |-> results[k].id,
              query_text |-> Truncated(results[k].query_text),
              email |-> results[k].email,
              created_at |-> results[k].created_at,
              project_id |-> results[k].project_id,
              hit_count |-> Get(results[k].metadata, "hit_count", 0),
              result_text |-> Truncated(results[k].result_text)]]
    ELSE <<>>

\* CacheManager.search_entries of manage_cache.py; the value returned is kept
\* with the query and the rows the query selected
SearchEntries(w, query) ==
    /\ pc[w] = "idle"
    /\ \E query_ok \in BOOLEAN :
         ret' = [op |-> "search_entries",
                 query |-> query,
                 ok |-> query_ok,
                 selected |-> QueryLike(query, AdminPageSize),
                 entries |-> IF query_ok
                             THEN FoundEntries(QueryLike(query, AdminPageSize))
                             ELSE <<>>]
    /\ UNCHANGED <<store, clock, pc, loc, acked, client>>

\* An entry another client of the collection wrote: its metadata is a string
\* that is no JSON text (the case the listing of manage_cache.py parses for)
ForeignRow ==
    [RowOf(StoredEntry(0)) EXCEPT !.id = GenerateQueryId("z", "a@x", "p1", 0),
                                  !.query_text = "z",
                                  !.metadata = NotJson]

\* the collection is empty, or holds the foreign entry
AdminInit ==
    /\ store \in {<<>>, <<ForeignRow>>}
    /\ clock = 0
    /\ pc = [w \in Workers |-> "idle"]
    /\ loc = [w \in Workers |-> NoCall]
    /\ ret = NoCall
    /\ acked = [k \in 1..Len(store) |-> 0]
    /\ client = ConnectedClient

\* the ids the administrator names: those of the stored rows, and one that
\* is not stored
NamedIds == {store[i].id : i \in 1..Len(store)} \cup {MissingId}

\* One worker adds and looks up entries under one scope; the administrator
\* lists, searches and deletes, and calls increment_hit_count.
AdminNext ==
    \/ \E q \in QueryTexts : AddToCache("w1", q, <<0, 0>>, "a@x", "p1")
    \/ \E v \in QueryVectors : SearchCache("w1", v, "a@x", "p1")
    \/ \E id \in NamedIds : IncrementHitCount("w1", id)
    \/ IncQuery("w1")
    \/ IncUpdate("w1")
    \/ \E id \in NamedIds : DeleteEntry("w1", id)
    \/ \E query \in {"q", "z"} : SearchEntries("w1", query)
    \/ AdminGetCacheEntries("w1", 1)

AdminSpec == AdminInit /\ [][AdminNext]_vars

(* ----------------------- MilvusClientSingleton ------------------------ *)

MaxConnects == 6  \* a construction that would connect starts only below this many runs of _connect

\* __new__: cls._instance, after an object was made for it if it was None
NewObject(c) ==
    IF c.instance = 0
    THEN [c EXCEPT !.instance = c.objects + 1, !.objects = c.objects + 1]
    ELSE c

\* what _connect and _init_collection may do: both pass, or one of them raises
InitOutcomes == {"ok", "connect_raises", "init_collection_raises"}

\* an __init__ that connects whatever _initialized says
InitObject_Unguarded(c, outcome) ==
    [c EXCEPT !.connects = @ + 1,
              !.collection_inits = IF outcome = "connect_raises" THEN @ ELSE @ + 1,
              !.initialized = c.initialized \/ outcome = "ok"]

\* __init__: nothing when _initialized; else _connect(), _init_collection()
\* and, when neither raised, _initialized = True
InitObject(c, outcome) ==
    IF c.initialized THEN c
    ELSE [c EXCEPT !.connects = @ + 1,
                   !.collection_inits = IF outcome = "connect_raises" THEN @ ELSE @ + 1,
                   !.initialized = (outcome = "ok")]

\* MilvusClientSingleton() raises when its __init__ ran into a raising call
InitRaises(c, outcome) == ~c.initialized /\ outcome # "ok"

\* the class after a call handed out the object c.instance
HandedOut(c) == [c EXCEPT !.returned = @ \cup {c.instance}]

\* the value a call of the class returns, or that it raised
ClientResult(op, c, raises) ==
    [op |-> op, raised |-> raises, instance |-> IF raises THEN 0 ELSE c.instance]

\* MilvusClientSingleton(): __new__, then __init__ on the object it returned
Construct ==
    /\ client.initialized \/ client.connects < MaxConnects
    /\ \E outcome \in InitOutcomes :
         LET c == InitObject(NewObject(client), outcome)
             raises == InitRaises(client, outcome)
         IN /\ client' = IF raises THEN c ELSE HandedOut(c)
            /\ ret' = ClientResult("MilvusClientSingleton", c, raises)
    /\ UNCHANGED <<store, clock, pc, loc, acked>>

\* MilvusClientSingleton.get_instance(): constructs when _instance is None,
\* and returns _instance
GetInstance ==
    /\ client.initialized \/ client.connects < MaxConnects
    /\ \E outcome \in InitOutcomes :
         LET constructs == client.instance = 0
             c == IF constructs THEN InitObject(NewObject(client), outcome) ELSE client
             raises == constructs /\ InitRaises(client, outcome)
         IN /\ client' = IF raises THEN c ELSE HandedOut(c)
            /\ ret' = ClientResult("get_instance", c, raises)
    /\ UNCHANGED <<store, clock, pc, loc, acked>>

\* get_collection() on an object a call handed out: the collection, loaded,
\* unless Collection(...) or load() raises
GetCollection ==
    /\ client.returned # {}
    /\ \E load_ok \in BOOLEAN :
         ret' = ClientResult("get_collection", client, ~load_ok)
    /\ UNCHANGED <<store, clock, pc, loc, acked, client>>

\* nothing was constructed yet
SingletonInit ==
    /\ store = <<>>
    /\ clock = 0
    /\ pc = [w \in Workers |-> "idle"]
    /\ loc = [w \in Workers |-> NoCall]
    /\ ret = NoCall
    /\ acked = <<>>
    /\ client = FreshClient

\* constructions, get_instance and get_collection calls, one after the other
SingletonNext ==
    \/ Construct
    \/ GetInstance
    \/ GetCollection

SingletonSpec == SingletonInit /\ [][SingletonNext]_vars

(* ------------------------ lookups, field by field --------------------- *)

\* the cache_management a lookup is called with
LookupCacheManagement == {NoCacheManagement, DictV([ttl |-> IntV(1)])}

\* One worker stores answers that carry a reference, a cited reference, a
\* pdf_info and a result vector of their own, and looks them up with either
\* query text and cache_management; the embedding provider answers or fails.
LookupNext ==
    \/ \E q \in QueryTexts :
          AddToCacheWith("w1", q, <<0, 0>>, <<10, 0>>, ResultTextOf(q),
                         "a@x", "p1",
                         <<StrV("t")>>, <<IntV(2)>>, DictV([a |-> IntV(1)]))
    \/ \E q \in {"q", "z"}, v \in QueryVectors, cm \in LookupCacheManagement :
          SearchCacheWith("w1", q, v, "a@x", "p1", cm, BOOLEAN)
    \/ IncQuery("w1")
    \/ IncUpdate("w1")

LookupSpec == Init /\ [][LookupNext]_vars

(* ------------------- interactive_menu of manage_cache.py -------------- *)

MaxDeletes == 2  \* the session deletes entries only while it has deleted fewer than this

\* self.collection_name = "logos_cache"
CollectionName == "logos_cache"

\* the names typed at the prompt of drop_collection
TypedNames == {CollectionName, "other"}

\* the numbers of entries the collection holds when the session starts
ConsolePopulations == {0, 1, 21}

\* the search terms typed at the prompt of option 2
SearchTerms == {"q", "z"}

\* what is typed at the navigation prompts: the letters the loops know, a
\* letter they do not know, and entry numbers
NavChoices == {"q", "p", "n", "b", "x", "0", "1"}

\* nav_choice.isdigit()
IsDigit(nav_choice) == nav_choice \in {"0", "1"}

\* int(nav_choice)
IntOf(nav_choice) == IF nav_choice = "1" THEN 1 ELSE 0

\* the locals of interactive_menu at its start: page = 1, nothing fetched
\* yet; deleted counts the entries the session has deleted
MenuLocals ==
    [op |-> "interactive_menu", page |-> 1, entries |-> <<>>, total_pages |-> 0,
     entry_idx |-> 0, results |-> <<>>, deleted |-> 0]

\* what the console shows after a step: the option or letter typed, the
\* answer to Confirm.ask (False when it was not asked), the collection name
\* typed (option 6 only), and the panel printed last
ConsoleSays(choice, confirm, typed, panel) ==
    [op |-> "console", choice |-> choice, confirm |-> confirm,
     typed |-> typed, panel |-> panel]

\* a comparison that accepts whatever name was typed
NameMatches_Any(collection_name) == TRUE

\* if collection_name == cache_manager.collection_name
NameMatches(collection_name) == collection_name = CollectionName

\* the collection after collection.delete(expr='id == "<entry_id>"')
StoreWithout(entry_id) ==
    LET kept == KeptPlaces(entry_id) IN [k \in 1..Len(kept) |-> store[kept[k]]]

\* the hit counters of the rows that collection.delete leaves
AckedWithout(entry_id) ==
    LET kept == KeptPlaces(entry_id) IN [k \in 1..Len(kept) |-> acked[kept[k]]]

\* the list with its element at place idx popped
Popped(results, idx) ==
    [k \in 1..(Len(results) - 1) |-> IF k < idx THEN results[k] ELSE results[k + 1]]

\* 'q' or option 7 at the main menu: the loop ends, the farewell is printed
MenuQuit(w) ==
    /\ pc[w] = "menu"
    /\ \E choice \in {"q", "7"} :
         ret' = ConsoleSays(choice, FALSE, "", "thank_you")
    /\ pc' = [pc EXCEPT ![w] = "exited"]
    /\ UNCHANGED <<store, clock, loc, acked, client>>

\* option 1: into the listing loop, with the page the session is on
MenuList(w) ==
    /\ pc[w] = "menu"
    /\ pc' = [pc EXCEPT ![w] = "listing"]
    /\ ret' = ConsoleSays("1", FALSE, "", "none")
    /\ UNCHANGED <<store, clock, loc, acked, client>>

\* the top of the listing loop: get_cache_entries(page), total_pages, and the
\* list and the navigation rendered
ListEntries(w) ==
    /\ pc[w] = "listing"
    /\ \E query_ok \in BOOLEAN, order \in UnsortedOrders :
         LET fetched == AdminPageOfEntries(QueryAll(ListingLimit, FALSE, order),
                                           loc[w].page, query_ok)
         IN loc' = [loc EXCEPT ![w] =
                      [@ EXCEPT !.entries = fetched.entries,
                                !.total_pages = TotalPages(fetched.total_count, AdminPageSize)]]
    /\ pc' = [pc EXCEPT ![w] = "nav"]
    /\ ret' = ConsoleSays("1", FALSE, "", "entries")
    /\ UNCHANGED <<store, clock, acked, client>>

\* the answer at the navigation prompt of the listing
ListNavigate(w, nav_choice) ==
    /\ pc[w] = "nav"
    /\ LET page == loc[w].page
           goes(position, locals, panel) ==
               /\ pc' = [pc EXCEPT ![w] = position]
               /\ loc' = [loc EXCEPT ![w] = locals]
               /\ ret' = ConsoleSays(nav_choice, FALSE, "", panel)
       IN IF nav_choice = "q" THEN goes("exited", loc[w], "none")
          ELSE IF nav_choice = "p" /\ page > 1
          THEN goes("listing", [loc[w] EXCEPT !.page = page - 1], "none")
          ELSE IF nav_choice = "n" /\ page < loc[w].total_pages
          THEN goes("listing", [loc[w] EXCEPT !.page = page + 1], "none")
          ELSE IF nav_choice = "b" THEN goes("menu", loc[w], "none")
          ELSE IF IsDigit(nav_choice)
          THEN IF 1 <= IntOf(nav_choice) /\ IntOf(nav_choice) <= Len(loc[w].entries)
               THEN goes("detail", [loc[w] EXCEPT !.entry_idx = IntOf(nav_choice)], "detail")
               ELSE goes("listing", loc[w], "invalid_entry_number")
          ELSE goes("listing", loc[w], "none")
    /\ UNCHANGED <<store, clock, acked, client>>

\* the answer at the prompt of the detail view of a listed entry: 'b', or 'd'
\* with the answer to Confirm.ask and, when that is yes, delete_entry
ListDetail(w, detail_choice, confirm) ==
    /\ pc[w] = "detail"
    /\ LET entry_id == loc[w].entries[loc[w].entry_idx].id IN
       IF detail_choice = "d" /\ confirm
       THEN /\ loc[w].deleted < MaxDeletes
            /\ \E success \in BOOLEAN :
                 /\ store' = IF success THEN StoreWithout(entry_id) ELSE store
                 /\ acked' = IF success THEN AckedWithout(entry_id) ELSE acked
                 /\ pc' = [pc EXCEPT ![w] = IF success THEN "listing" ELSE "detail"]
                 /\ loc' = [loc EXCEPT ![w] =
                              [@ EXCEPT !.deleted = IF success THEN @ + 1 ELSE @]]
                 /\ ret' = ConsoleSays("d", TRUE, "",
                                       IF success THEN "deleted" ELSE "delete_failed")
       ELSE /\ pc' = [pc EXCEPT ![w] = IF detail_choice = "b" THEN "listing" ELSE "detail"]
            /\ ret' = ConsoleSays(detail_choice, FALSE, "", "none")
            /\ UNCHANGED <<store, acked, loc>>
    /\ UNCHANGED <<clock, client>>

\* option 2: the search term, search_entries, and the result loop when
\* something was found
MenuSearch(w, search_query) ==
    /\ pc[w] = "menu"
    /\ \E query_ok \in BOOLEAN :
         LET results == IF query_ok
                        THEN FoundEntries(QueryLike(search_query, AdminPageSize))
                        ELSE <<>>
         IN /\ loc' = [loc EXCEPT ![w] = [@ EXCEPT !.results = results]]
            /\ pc' = [pc EXCEPT ![w] = IF results # <<>> THEN "results" ELSE "menu"]
            /\ ret' = ConsoleSays("2", FALSE, "",
                                  IF results # <<>> THEN "entries" ELSE "no_matching_entries")
    /\ UNCHANGED <<store, clock, acked, client>>

\* the answer at the navigation prompt of the search results
ResultsNavigate(w, nav_choice) ==
    /\ pc[w] = "results"
    /\ LET goes(position, entry_idx, panel) ==
               /\ pc' = [pc EXCEPT ![w] = position]
               /\ loc' = [loc EXCEPT ![w] = [@ EXCEPT !.entry_idx = entry_idx]]
               /\ ret' = ConsoleSays(nav_choice, FALSE, "", panel)
       IN IF nav_choice = "q" THEN goes("exited", loc[w].entry_idx, "none")
          ELSE IF nav_choice = "b" THEN goes("menu", loc[w].entry_idx, "none")
          ELSE IF IsDigit(nav_choice)
          THEN IF 1 <= IntOf(nav_choice) /\ IntOf(nav_choice) <= Len(loc[w].results)
               THEN goes("result_detail", IntOf(nav_choice), "detail")
               ELSE goes("results", loc[w].entry_idx, "invalid_entry_number")
          ELSE goes("results", loc[w].entry_idx, "none")
    /\ UNCHANGED <<store, clock, acked, client>>

\* the answer at the prompt of the detail view of a search result; a deleted
\* entry is popped from the results as well
ResultDetail(w, detail_choice, confirm) ==
    /\ pc[w] = "result_detail"
    /\ LET entry_id == loc[w].results[loc[w].entry_idx].id IN
       IF detail_choice = "d" /\ confirm
       THEN /\ loc[w].deleted < MaxDeletes
            /\ \E success \in BOOLEAN :
                 /\ store' = IF success THEN StoreWithout(entry_id) ELSE store
                 /\ acked' = IF success THEN AckedWithout(entry_id) ELSE acked
                 /\ pc' = [pc EXCEPT ![w] = IF success THEN "results" ELSE "result_detail"]
                 /\ loc' = [loc EXCEPT ![w] =
                              IF success
                              THEN [@ EXCEPT !.results = Popped(@, loc[w].entry_idx),
                                             !.deleted = @ + 1]
                              ELSE @]
                 /\ ret' = ConsoleSays("d", TRUE, "",
                                       IF success THEN "deleted" ELSE "delete_failed")
       ELSE /\ pc' = [pc EXCEPT ![w] = IF detail_choice = "b" THEN "results"
                                        ELSE "result_detail"]
            /\ ret' = ConsoleSays(detail_choice, FALSE, "", "none")
            /\ UNCHANGED <<store, acked, loc>>
    /\ UNCHANGED <<clock, client>>

\* option 3: the id typed, the answer to Confirm.ask and, when that is yes,
\* delete_entry
MenuDelete(w, entry_id, confirm) ==
    /\ pc[w] = "menu"
    /\ IF confirm
       THEN /\ loc[w].deleted < MaxDeletes
            /\ \E success \in BOOLEAN :
                 /\ store' = IF success THEN StoreWithout(entry_id) ELSE store
                 /\ acked' = IF success THEN AckedWithout(entry_id) ELSE acked
                 /\ loc' = [loc EXCEPT ![w] =
                              [@ EXCEPT !.deleted = IF success /\ store' # store
                                                    THEN @ + 1 ELSE @]]
                 /\ ret' = ConsoleSays("3", TRUE, "",
                                       IF success THEN "deleted" ELSE "delete_failed")
       ELSE /\ ret' = ConsoleSays("3", FALSE, "", "none")
            /\ UNCHANGED <<store, acked, loc>>
    /\ UNCHANGED <<clock, pc, client>>

\* option 4: display_statistics, which prints the statistics or, when a
\* Milvus call raises, its error panel
MenuStatistics(w) ==
    /\ pc[w] = "menu"
    /\ \E query_ok \in BOOLEAN :
         ret' = ConsoleSays("4", FALSE, "", IF query_ok THEN "statistics" ELSE "error")
    /\ UNCHANGED <<store, clock, pc, loc, acked, client>>

\* option 5: the warning, the answer to Confirm.ask and, when that is yes,
\* await cache_manager.collection.drop().  Collection.drop() drops the
\* collection and returns None (or raises); awaiting None raises TypeError.
\* Either exception leaves interactive_menu, and main prints its error panel.
MenuReset(w, confirm) ==
    /\ pc[w] = "menu"
    /\ IF confirm
       THEN \E drop_ok \in BOOLEAN :
              /\ store' = IF drop_ok THEN <<>> ELSE store
              /\ acked' = IF drop_ok THEN <<>> ELSE acked
              /\ pc' = [pc EXCEPT ![w] = "failed"]
              /\ ret' = ConsoleSays("5", TRUE, "", "error")
       ELSE /\ ret' = ConsoleSays("5", FALSE, "", "none")
            /\ UNCHANGED <<store, acked, pc>>
    /\ UNCHANGED <<clock, loc, client>>

\* option 6, drop_collection: the name typed, the answer to Confirm.ask when
\* the name matches, and utility.drop_collection when both say yes.  A
\* collection that was dropped before holds nothing and does not exist.
MenuDropCollection(w, collection_name, confirm) ==
    /\ pc[w] = "menu"
    /\ IF ~NameMatches(collection_name)
       THEN /\ ret' = ConsoleSays("6", FALSE, collection_name, "name_does_not_match")
            /\ UNCHANGED <<store, acked>>
       ELSE IF ~confirm
       THEN /\ ret' = ConsoleSays("6", FALSE, collection_name, "none")
            /\ UNCHANGED <<store, acked>>
       ELSE \E outcome \in {"dropped", "raises"} \cup
                           (IF store = <<>> THEN {"does_not_exist"} ELSE {}) :
              /\ store' = IF outcome = "dropped" THEN <<>> ELSE store
              /\ acked' = IF outcome = "dropped" THEN <<>> ELSE acked
              /\ ret' = ConsoleSays("6", TRUE, collection_name,
                                    CASE outcome = "dropped" -> "permanently_deleted"
                                      [] outcome = "does_not_exist" -> "does_not_exist"
                                      [] outcome = "raises" -> "failed_to_drop")
    /\ UNCHANGED <<clock, pc, loc, client>>

\* the ids typed at the prompt of option 3: that of the first stored entry,
\* and one that is not stored
TypedIds == {store[i].id : i \in 1..Min(1, Len(store))} \cup {MissingId}

\* the session starts at the main menu, on a collection of one of the sizes
ConsoleInit ==
    /\ \E n \in ConsolePopulations : store = [k \in 1..n |-> RowOf(StoredEntry(k))]
    /\ clock = Len(store)
    /\ pc = [w \in Workers |-> IF w = "w1" THEN "menu" ELSE "idle"]
    /\ loc = [w \in Workers |-> IF w = "w1" THEN MenuLocals ELSE NoCall]
    /\ ret = NoCall
    /\ acked = [k \in 1..Len(store) |-> 0]
    /\ client = ConnectedClient

\* one session of the console, answer by answer
ConsoleNext ==
    \/ MenuQuit("w1")
    \/ MenuList("w1")
    \/ ListEntries("w1")
    \/ \E nav_choice \in NavChoices : ListNavigate("w1", nav_choice)
    \/ \E detail_choice \in {"d", "b"}, confirm \in BOOLEAN :
          ListDetail("w1", detail_choice, confirm)
    \/ \E search_query \in SearchTerms : MenuSearch("w1", search_query)
    \/ \E nav_choice \in NavChoices : ResultsNavigate("w1", nav_choice)
    \/ \E detail_choice \in {"d", "b"}, confirm \in BOOLEAN :
          ResultDetail("w1", detail_choice, confirm)
    \/ \E entry_id \in TypedIds, confirm \in BOOLEAN : MenuDelete("w1", entry_id, confirm)
    \/ MenuStatistics("w1")
    \/ \E confirm \in BOOLEAN : MenuReset("w1", confirm)
    \/ \E collection_name \in TypedNames, confirm \in BOOLEAN :
          MenuDropCollection("w1", collection_name, confirm)

ConsoleSpec == ConsoleInit /\ [][ConsoleNext]_vars

(* -------------------------- search_by_result -------------------------- *)

\* the parameters search_similar takes besides self
SearchSimilarParameters == {"query_vector", "top_k", "field", "expr"}

\* those of them that have no default
SearchSimilarRequired == {"query_vector"}

\* the keyword arguments search_by_result passes to search_similar
SearchByResultKeywords == {"result_vector", "top_k", "field"}

\* Python binds a call made with these keyword arguments; when it does not,
\* the call raises TypeError before the body of the function runs
BindsArguments(keywords) ==
    /\ keywords \subseteq SearchSimilarParameters
    /\ SearchSimilarRequired \subseteq keywords

\* One hit of collection.search on anns_field field
FieldHitOf(i, field, vector) ==
    [HitOf(i, vector) EXCEPT !.score = L2Distance(vector, store[i][field])]

\* The rankings collection.search may return on anns_field field without
\* expr: the limit nearest rows, by ascending distance
FieldRankings(field, vector, limit) ==
    LET cand == 1..Len(store)
        n == Min(limit, Cardinality(cand))
        d(i) == L2Distance(vector, store[i][field])
    IN {s \in [1..n -> cand] :
          /\ \A i, j \in 1..n : i < j => (s[i] # s[j] /\ d(s[i]) <= d(s[j]))
          /\ \A c \in cand : (\A i \in 1..n : s[i] # c) => (\A i \in 1..n : d(s[i]) <= d(c))}

\* VectorStore.search_similar on a field, without expr; the index call
\* raises on a vector of another dimension than the field's
SearchSimilarOn(field, vector, top_k, index_ok) ==
    IF index_ok /\ \A i \in 1..Len(store) : Len(store[i][field]) = Len(vector)
    THEN {[k \in 1..Len(s) |-> FieldHitOf(s[k], field, vector)] :
             s \in FieldRankings(field, vector, top_k)}
    ELSE {<<>>}

\* CacheManager.search_by_result: the embedding of result_text, the call of
\* search_similar with the keyword arguments result_vector, top_k and field,
\* and [] from the handler when anything raised
SearchByResult(w, result_text, top_k) ==
    /\ pc[w] = "idle"
    /\ \E embed_ok \in BOOLEAN, index_ok \in BOOLEAN :
         LET result_vector == GenerateEmbedding(result_text, embed_ok) IN
         \E results \in IF BindsArguments(SearchByResultKeywords)
                        THEN SearchSimilarOn("result_vector", result_vector, top_k, index_ok)
                        ELSE {<<>>} :
            ret' = [op |-> "search_by_result",
                    results |-> results,
                    result_text |-> result_text,
                    result_vector |-> result_vector,
                    top_k |-> top_k,
                    embed_ok |-> embed_ok,
                    index_ok |-> index_ok]
    /\ UNCHANGED <<store, clock, pc, loc, acked, client>>

\* the result texts searched for, and the numbers of results asked for
SearchedResultTexts == {"r", "s"}
ResultTopKs == {1, TopK}

\* One worker stores answers whose result vector is the embedding of the
\* searched texts or lies at distance 1.0 from it, and searches them by
\* result text.
ResultSearchNext ==
    \/ \E q \in QueryTexts, rv \in {ResultVectorOf("r"), <<10, 0>>}, sc \in AddScopes :
          AddToCacheWith("w1", q, <<0, 0>>, rv, ResultTextOf(q), sc[1], sc[2],
                         <<>>, <<>>, DictV(EmptyDict))
    \/ \E result_text \in SearchedResultTexts, top_k \in ResultTopKs :
          SearchByResult("w1", result_text, top_k)

ResultSearchSpec == Init /\ [][ResultSearchNext]_vars

(* ------------------------------ properties ---------------------------- *)

RowsWithId(id) == {i \in 1..Len(store) : store[i].id = id}

\* row carries t as its last_accessed, as a column or inside its metadata
StoresLastAccessed(row, t) ==
    \/ "last_accessed" \in DOMAIN row /\ row.last_accessed = t
    \/ "last_accessed" \in DOMAIN row.metadata /\ row.metadata.last_accessed = t

\* the step in which worker w returns from search_cache with a hit
HitReturns(w) ==
    /\ pc[w] # "idle"
    /\ loc[w].op = "search_cache"
    /\ pc'[w] = "idle"

\* C1: a lookup that directly follows a successful add_to_cache, with the
\* same vector and scope, reports a hit on the entry just added, hit_count 2.
C1_LookupAfterAddHits ==
    (ret.op = "search_cache" /\ ret.after_add # NoId) =>
        /\ ret.found
        /\ ret.entry.query_id = ret.after_add
        /\ ret.entry.hit_count = 2

\* C2: a lookup whose best candidate scores below 0.7 reports a miss and
\* carries no entry, however many candidates the index returned.
C2_BelowThresholdIsMiss ==
    (ret.op = "search_cache" /\ ret.nresults > 0 /\ ret.best_score < 70) =>
        (~ret.found /\ ret.entry = NoEntry)

\* C2 witness: a miss with two candidates, the best one scoring 0.25
C2_Witness ==
    /\ ret.op = "search_cache"
    /\ ret.nresults >= 2
    /\ ret.best_score = 25
    /\ ~ret.found

\* C3: the entry a lookup returns carries the lookup's email and project_id,
\* and every stored row of that id was inserted under that scope.
C3_ScopeIsolation ==
    (ret.op = "search_cache" /\ ret.found) =>
        /\ ret.entry.email = ret.email
        /\ ret.entry.project_id = ret.project_id
        /\ \A i \in RowsWithId(ret.entry.query_id) :
              store[i].email = ret.email /\ store[i].project_id = ret.project_id

\* C3 witness: a hit while a row of another project lies nearer to the query
C3_Witness ==
    /\ ret.op = "search_cache"
    /\ ret.found
    /\ \E j \in 1..Len(store) :
          /\ store[j].project_id # ret.project_id
          /\ L2Distance(ret.query_vector, store[j].query_vector) < ret.similarity_score

\* C4: no increment is lost: once no call is in flight, the stored hit_count
\* of an entry (a row whose id no other row shares) is 1 plus the number of
\* increment_hit_count calls on it that returned True.
C4_NoLostIncrement ==
    Idle => \A i \in 1..Len(store) :
               RowsWithId(store[i].id) = {i} =>
                   store[i].metadata.hit_count = 1 + acked[i]

\* C5: the score a lookup compares with 0.7 and reports lies in [0,1], and is
\* 1.0 when the best candidate's stored vector equals the query vector.
C5_ScoreNormalized ==
    (ret.op = "search_cache" /\ ret.nresults > 0) =>
        /\ ret.best_score \in 0..100
        /\ (\E i \in RowsWithId(ret.best_id) : store[i].query_vector = ret.query_vector)
              => ret.best_score = 100
        /\ ret.found => (ret.similarity_score = ret.best_score
                         /\ ret.entry.relevance_score = ret.best_score)

\* C6: the entry add_to_cache hands to the store has hit_count 1,
\* relevance_score 1.0 and created_at equal to last_accessed.
C6_FreshEntryFields ==
    ret.op = "add_to_cache" =>
        /\ ret.entry.hit_count = 1
        /\ ret.entry.relevance_score = 100
        /\ ret.entry.created_at = ret.entry.last_accessed

\* C7: an add_to_cache that returns False leaves no row in the store.
C7_FailedAddStoresNothing ==
    [][((\E w \in Workers, q \in QueryTexts, v \in StoredVectors, sc \in AddScopes :
            AddToCache(w, q, v, sc[1], sc[2]))
        /\ ~ret'.ok) => store' = store]_vars

\* C8: the ids of the stored rows are pairwise distinct.
C8_IdsUnique ==
    \A i, j \in 1..Len(store) : i # j => store[i].id # store[j].id

\* C9: every stored row has hit_count >= 1.
C9_HitCountAtLeastOne ==
    \A i \in 1..Len(store) : store[i].metadata.hit_count >= 1

\* C9 witness: a row whose hit_count an increment has raised
C9_Witness ==
    \E i \in 1..Len(store) : acked[i] >= 1 /\ store[i].metadata.hit_count >= 2

\* C10: a lookup that reports a hit on an entry leaves the entry's stored
\* hit_count one above what the lookup found, and its stored last_accessed
\* at the time of the hit.
C10_HitAccounting ==
    [][\A w \in Workers : HitReturns(w) =>
          \A i \in RowsWithId(loc[w].entry_id) :
             /\ store'[i].metadata.hit_count = loc[w].best_match.metadata.hit_count + 1
             /\ StoresLastAccessed(store'[i], ret'.entry.last_accessed)]_vars

\* C11: a lookup whose best candidate passes the threshold reports the hit
\* (found, the matched entry, its score) whether or not increment_hit_count
\* succeeded: a failed query or update of the metadata does not fail the
\* lookup.
C11_HitSurvivesFailedIncrement ==
    (ret.op = "search_cache" /\ ret.nresults > 0 /\ ~IsMiss(ret.best_score)) =>
        /\ ret.found
        /\ ret.entry.query_id = ret.best_id
        /\ ret.similarity_score = ret.best_score

\* C11 witness: a hit is reported on an entry on which no increment has ever
\* succeeded, so the increment made by this lookup failed
C11_Witness ==
    /\ ret.op = "search_cache"
    /\ ret.found
    /\ RowsWithId(ret.entry.query_id) # {}
    /\ \A i \in RowsWithId(ret.entry.query_id) :
          acked[i] = 0 /\ store[i].metadata.hit_count = InitialHitCount

\* C12: the write of increment_hit_count changes nothing but hit_count (and
\* last_accessed) in the metadata of the rows of the entry: their columns,
\* the other keys of their metadata (references, cited_refs, pdf_names,
\* pdf_info, relevance_score, cache_management) and all other rows stay as
\* they are, in whatever shape the metadata was read back.
C12_IncrementFrame ==
    [][\A w \in Workers : (pc[w] = "inc_update" /\ pc'[w] = "idle") =>
          /\ Len(store') = Len(store)
          /\ \A i \in 1..Len(store) :
                /\ store[i].id # loc[w].entry_id => store'[i] = store[i]
                /\ \A f \in DOMAIN store[i] \ {"metadata"} :
                      store'[i][f] = store[i][f]
                /\ \A k \in DOMAIN store[i].metadata \ {"hit_count", "last_accessed"} :
                      /\ k \in DOMAIN store'[i].metadata
                      /\ store'[i].metadata[k] = store[i].metadata[k]]_vars

\* sub is seq with some elements left out: same elements, same order
IsSubsequence(sub, seq) ==
    \E f \in [1..Len(sub) -> 1..Len(seq)] :
       /\ \A k \in 1..Len(sub) : sub[k] = seq[f[k]]
       /\ \A k, l \in 1..Len(sub) : k < l => f[k] < f[l]

\* C13: every hit hybrid_search returns has a raw distance below 1.5, and
\* that distance is the one between the query vector and the result_vector
\* of a stored row of the hit's id.
C13_DistanceBelowThreshold ==
    ret.op = "hybrid_search" =>
        \A k \in 1..Len(ret.results) :
           /\ ret.results[k].score < 150
           /\ \E i \in RowsWithId(ret.results[k].id) :
                 L2Distance(ret.query_vector, store[i].result_vector)
                     = ret.results[k].score

\* C13 witness: the index returned, within top_k, a row at distance 1.5 or
\* more behind a nearer one, and the call returned hits
C13_Witness ==
    /\ ret.op = "hybrid_search"
    /\ ret.index_ok
    /\ ret.results # <<>>
    /\ \E k \in 1..Len(ret.hits) : k <= ret.top_k /\ ret.hits[k].score >= 150

\* C14: hybrid_search returns at most top_k hits, and they are a subsequence
\* of the list the index returned: nothing reordered, nothing repeated.
C14_AtMostTopKInOrder ==
    ret.op = "hybrid_search" =>
        /\ Len(ret.results) <= ret.top_k
        /\ IsSubsequence(ret.results, ret.hits)

\* C14 witness: two hits are returned, the nearer one first
C14_Witness ==
    /\ ret.op = "hybrid_search"
    /\ Len(ret.results) = 2
    /\ ret.results[1].score < ret.results[2].score

C16_IndexFailureIsEmpty ==
    /\ (ret.op = "hybrid_search" /\ ~ret.index_ok) => ret.results = <<>>
    /\ (ret.op = "search_cache" /\ ~ret.index_ok) =>
          (ret.nresults = 0 /\ ~ret.found /\ ret.entry = NoEntry)

\* C16 witness: a miss on a failed index call while the scope of the lookup
\* holds a row that passes the threshold
C16_Witness ==
    /\ ret.op = "search_cache"
    /\ ~ret.index_ok
    /\ ~ret.found
    /\ \E i \in 1..Len(store) :
          /\ MatchesExpr(store[i], ScopeExpr(ret.email, ret.project_id))
          /\ ~IsMiss(L2Distance(ret.query_vector, store[i].query_vector))

\* the last add_to_cache got past the normalization of its inputs
Normalized == ret.op = "add_to_cache" /\ ret.entry # NoEntry

\* a == b in Python: numbers by value, anything else by type and content
PyEq(a, b) ==
    IF a.kind \in {"int", "float"} /\ b.kind \in {"int", "float"}
    THEN (IF a.kind = "int" THEN 100 * a.val ELSE a.val)
         = (IF b.kind = "int" THEN 100 * b.val ELSE b.val)
    ELSE a = b

\* two mappings with the same keys and equal values
SameMapping(a, b) ==
    /\ a.kind = "dict" /\ b.kind = "dict"
    /\ DOMAIN a.val = DOMAIN b.val
    /\ \A k \in DOMAIN a.val : PyEq(a.val[k], b.val[k])

\* C17: the normalization of references, cited_refs and pdf_info fails for
\* no input shape: every add_to_cache gets past it and builds its entry.
C17_NormalizationNeverFails ==
    ret.op = "add_to_cache" => ret.entry # NoEntry

\* what C18 says a reference becomes
ExpectedReference(ref) ==
    IF ref.kind = "dict" THEN ref
    ELSE IF ref.kind \in {"list", "tuple"}
    THEN LET s == ref.val
         IN DictV([score |-> IF Len(s) >= 1 THEN s[1] ELSE FloatV(0),
                   text |-> IF Len(s) >= 2 THEN s[2] ELSE PyNone,
                   file_name |-> IF Len(s) >= 3 THEN s[3] ELSE PyNone,
                   page |-> IF Len(s) >= 4 THEN s[4] ELSE PyNone])
    ELSE DictV([text |-> PyStr(ref), score |-> FloatV(0),
                file_name |-> PyNone, page |-> PyNone])

\* C18: the references of the entry are the inputs one by one, in order: a
\* mapping as it is; a sequence read as [score, text, file_name, page], a
\* missing element being 0.0 (score) or None and a present one kept as given
\* (page 0 stays 0); any other value v as {text: str(v), score: 0.0,
\* file_name: None, page: None}.
C18_ReferenceNormalization ==
    Normalized =>
        LET references == loc["w1"].references
            processed == ret.entry.references
        IN /\ Len(processed) = Len(references)
           /\ \A i \in 1..Len(references) :
                 SameMapping(processed[i], ExpectedReference(references[i]))

\* what C19 says a cited reference becomes
ExpectedCitedRef(ref) ==
    IF ref.kind = "dict" THEN ref
    ELSE IF ref.kind = "int"
    THEN DictV([index |-> ref, text |-> PyNone, page |-> PyNone, file_name |-> PyNone])
    ELSE DictV([text |-> PyStr(ref), index |-> PyNone, page |-> PyNone,
                file_name |-> PyNone])

\* C19: the cited_refs of the entry are the inputs one by one, in order: a
\* mapping as it is; an integer n as {index: n} with text, page and
\* file_name None; any other value v as {text: str(v)} with index, page and
\* file_name None.
C19_CitedRefNormalization ==
    Normalized =>
        LET cited_refs == loc["w1"].cited_refs
            processed == ret.entry.cited_refs
        IN /\ Len(processed) = Len(cited_refs)
           /\ \A i \in 1..Len(cited_refs) :
                 processed[i] = ExpectedCitedRef(cited_refs[i])

\* C19 witness: an entry built from an integer followed by a string
C19_Witness ==
    /\ Normalized
    /\ Len(loc["w1"].cited_refs) = 2
    /\ loc["w1"].cited_refs[1].kind = "int"
    /\ loc["w1"].cited_refs[2].kind = "str"
    /\ Len(ret.entry.cited_refs) = 2

PageSizeOf(listing) == IF listing = "core" THEN PageSize ELSE AdminPageSize

\* C21: for N stored entries and every page p with 1 <= p <= ceil(N/page_size),
\* a listing that meets no Milvus failure returns exactly
\* min(page_size, N - (p-1)*page_size) entries and total_count = N, for every
\* N, also above 100.
C21_PagesAreFull ==
    LET n == Len(store)
        page_size == PageSizeOf(ret.listing)
    IN (/\ ret.op = "get_cache_entries"
        /\ ret.ok
        /\ ret.page <= TotalPages(n, page_size)) =>
           /\ Len(ret.entries) = Min(page_size, n - (ret.page - 1) * page_size)
           /\ ret.total_count = n

\* the stored rows were inserted oldest first, no two at the same time
InsertedOldestFirst ==
    \A i \in 1..(Len(store) - 1) : store[i].created_at < store[i + 1].created_at

\* the m-th newest stored row, when InsertedOldestFirst
Newest(m) == store[Len(store) - m + 1]

\* C22: with the store unchanged, the pages 1..total_pages of a listing, one
\* after the other, are the stored entries from the newest to the oldest,
\* each exactly once: page p holds, in this order, the entries at the places
\* (p-1)*page_size + 1 .. min(p*page_size, N) of that enumeration.  For both
\* listings, when no Milvus call fails.
C22_NewestFirst ==
    LET n == Len(store)
        page_size == PageSizeOf(ret.listing)
        first == (ret.page - 1) * page_size
    IN (/\ ret.op = "get_cache_entries"
        /\ ret.ok
        /\ InsertedOldestFirst
        /\ ret.page <= TotalPages(n, page_size)) =>
           /\ Len(ret.entries) = Min(page_size, n - first)
           /\ \A k \in 1..Len(ret.entries) :
                 first + k <= n => ret.entries[k].id = Newest(first + k).id

\* the step in which delete_entry returns
DeleteReturns ==
    /\ ret'.op = "delete_entry"
    /\ pc' = pc
    /\ (ret' # ret \/ store' # store)

\* the step in which worker w returns from a direct increment_hit_count
IncrementReturns(w) ==
    /\ pc[w] # "idle"
    /\ loc[w].op = "increment_hit_count"
    /\ pc'[w] = "idle"

\* C23: increment_hit_count(id) and delete_entry(id), called with an id that
\* no stored row carries, both return False and leave the store as it is.
C23_MissingIdIsFalse ==
    [][((DeleteReturns \/ IncrementReturns("w1")) /\ RowsWithId(ret'.entry_id) = {})
          => (~ret'.ok /\ store' = store)]_vars

\* the part of C23 that is about increment_hit_count
C23_IncrementOfMissingId ==
    [][(IncrementReturns("w1") /\ RowsWithId(ret'.entry_id) = {})
          => (~ret'.ok /\ store' = store)]_vars

\* the store is left alone by delete_entry of an id that is not stored
C23_DeleteOfMissingIdKeepsStore ==
    [][(DeleteReturns /\ RowsWithId(ret'.entry_id) = {}) => store' = store]_vars

\* the listing of manage_cache.py lists every stored row (up to its page),
\* the rows with unparseable metadata with {} as their metadata
C24_Listing ==
    (ret.op = "get_cache_entries" /\ ret.listing = "admin" /\ ret.ok) =>
        \A i \in 1..Len(store) :
           \E k \in 1..Len(ret.entries) :
              /\ ret.entries[k].id = store[i].id
              /\ store[i].metadata = NotJson => ret.entries[k].metadata = EmptyDict

\* search_entries returns an entry for every row its query selected, with
\* hit_count 0 for the rows with unparseable metadata
C24_AdminSearch ==
    (ret.op = "search_entries" /\ ret.ok) =>
        /\ Len(ret.entries) = Len(ret.selected)
        /\ \A k \in 1..Len(ret.entries) :
              ret.selected[k].metadata = NotJson => ret.entries[k].hit_count = 0

\* search_cache reports the hit on a best candidate that passes the
\* threshold, whatever its metadata
C24_Lookup ==
    (ret.op = "search_cache" /\ ret.nresults > 0 /\ ~IsMiss(ret.best_score)) =>
        ret.found

\* C24: an entry whose stored metadata is a string that is no JSON text is
\* read as an entry with empty metadata by the listing, by search_entries and
\* by search_cache, which go on with that entry and with the others.
C24_UnparseableMetadataIsEmpty ==
    C24_Listing /\ C24_AdminSearch /\ C24_Lookup

\* C25: over any sequence of MilvusClientSingleton() constructions and
\* get_instance() calls, all calls that return, return the same object, and
\* once an initialization has succeeded no later call runs _connect or
\* _init_collection again.
C25_OneInstanceOneInitialization ==
    [][/\ Cardinality(client'.returned) <= 1
       /\ client.initialized =>
             /\ client'.connects = client.connects
             /\ client'.collection_inits = client.collection_inits
             /\ client'.initialized]_vars

\* a first initialization failed, a later one succeeded, and get_instance
\* then returned the object
C25_Witness ==
    /\ client.initialized
    /\ client.connects >= 2
    /\ ret.op = "get_instance"
    /\ ~ret.raised
    /\ client.returned = {ret.instance}

\* what the caller of search_cache holds of a result that is no hit:
\* CacheSearchResult(found=False), which carries no entry and nothing else
Reported(result) == [found |-> result.found, entry |-> result.entry]

\* the lookup of an empty scope, whose index search succeeded: a genuine miss
GenuineMiss == MissResult(<<0, 0>>, "a@x", "p1", <<>>, NoId, TRUE, TRUE)

\* C26: a search_cache in which the index search failed, or which ended in
\* its exception handler, returns a value that differs from the value a
\* genuine miss returns.
C26_FailureIsNotAMiss ==
    (ret.op = "search_cache" /\ (~ret.index_ok \/ ret.raised)) =>
        Reported(ret) # Reported(GenuineMiss)

\* the fields of the returned entry that search_cache reads from best_match
\* equal those of a stored row with the entry's id
C27_FieldsReadFromStore ==
    (ret.op = "search_cache" /\ ret.found) =>
        \E i \in RowsWithId(ret.entry.query_id) :
           /\ ret.entry.query_text = store[i].query_text
           /\ ret.entry.result_text = store[i].result_text
           /\ ret.entry.email = store[i].email
           /\ ret.entry.project_id = store[i].project_id
           /\ ret.entry.created_at = store[i].created_at
           /\ ret.entry.references = store[i].metadata.references
           /\ ret.entry.cited_refs = store[i].metadata.cited_refs
           /\ ret.entry.pdf_names = store[i].metadata.pdf_names
           /\ ret.entry.pdf_info = store[i].metadata.pdf_info

\* C27: on a hit, the entry search_cache returns carries the stored values of
\* the matched row: id, query_text, result_text, email, project_id,
\* created_at, query_vector, result_vector, references, cited_refs,
\* pdf_names, pdf_info and cache_management.
C27_EntryFromStoredData ==
    (ret.op = "search_cache" /\ ret.found) =>
        \E i \in RowsWithId(ret.entry.query_id) :
           /\ C27_FieldsReadFromStore
           /\ ret.entry.query_vector = store[i].query_vector
           /\ ret.entry.result_vector = store[i].result_vector
           /\ ret.entry.cache_management = store[i].metadata.cache_management

\* C28: every CacheEntry that add_to_cache built or that search_cache
\* returned has created_at <= last_accessed, after any sequence of adds and
\* hits.
C28_CreatedBeforeAccessed ==
    (\/ ret.op = "add_to_cache" /\ ret.entry # NoEntry
     \/ ret.op = "search_cache" /\ ret.found) =>
        ret.entry.created_at <= ret.entry.last_accessed

\* a hit on an entry in the tick of the clock in which it was created
C28_Witness ==
    /\ ret.op = "search_cache"
    /\ ret.found
    /\ ret.entry.created_at = 1
    /\ ret.entry.last_accessed = 1

\* C29: a search_cache whose embedding call failed does not end in its
\* exception handler: it decides hit or miss as with a working provider, by
\* the threshold on the distance between the caller's query_vector and the
\* best candidate, and the entry of a hit carries as result_vector what
\* _generate_embedding returned, a vector of exactly 768 zeros.
C29_EmbeddingFailureIsZeroVector ==
    (ret.op = "search_cache" /\ ~ret.embed_ok) =>
        /\ ~ret.raised
        /\ ret.found <=> (ret.nresults > 0 /\ ~IsMiss(ret.best_score))
        /\ ret.nresults > 0 =>
              \E i \in RowsWithId(ret.best_id) :
                 ret.best_score = L2Distance(ret.query_vector, store[i].query_vector)
        /\ ret.found =>
              /\ Len(ret.entry.result_vector) = 768
              /\ \A k \in 1..768 : ret.entry.result_vector[k] = 0

\* a hit reported by a lookup whose embedding call failed
C29_Witness ==
    /\ ret.op = "search_cache"
    /\ ~ret.embed_ok
    /\ ret.index_ok
    /\ ret.found
    /\ ret.entry.result_vector = ZeroVector

\* C30: the hit decision of search_cache is monotone in the distance: when a
\* lookup reported a hit on a best candidate at raw distance d, the next
\* lookup that finds its best candidate at a smaller distance reports a hit
\* as well.
C30_CloserIsNeverRejected ==
    [][(/\ ret.op = "search_cache"
        /\ ret.found
        /\ ret'.op = "search_cache"
        /\ ret'.nresults > 0
        /\ ret'.best_score < ret.best_score)
          => ret'.found]_vars

\* C31: search_cache reports no hit on a candidate whose raw distance to the
\* query vector is 1.5 or more.
C31_NoHitBeyondPostFilter ==
    (ret.op = "search_cache" /\ ret.found) => ret.best_score < 150

\* the step in which w1's search_cache returns found=False: at once, as a
\* miss, or after increment_hit_count, from the exception handler
ReturnsNotFound ==
    /\ ret'.op = "search_cache"
    /\ ~ret'.found
    /\ HitReturns("w1") \/ (pc["w1"] = "idle" /\ pc' = pc)

\* C32: a search_cache that returns found=False has left the store as it
\* was, on every path, also when the entry could not be rebuilt after
\* increment_hit_count had run.
C32_NotFoundLeavesStore ==
    [][ReturnsNotFound => store' = store]_vars

\* the part of C32 about the lookups that return a miss before
\* increment_hit_count is called
C32_MissLeavesStore ==
    [][(ReturnsNotFound /\ ~HitReturns("w1")) => store' = store]_vars


\* C33: when search_cache returns a hit, the hit_count carried by the
\* returned entry is the hit_count stored for that entry at that moment,
\* also when increment_hit_count failed or another increment of the same
\* entry ran in between.
C33_ReturnedHitCountIsStored ==
    [][\A w \in Workers : (HitReturns(w) /\ ret'.found) =>
          \A i \in RowsWithId(ret'.entry.query_id) :
             ret'.entry.hit_count = Get(store'[i].metadata, "hit_count", 0)]_vars


\* C34: the stored hit_count of an entry never decreases: whatever the
\* interleaving of the increment_hit_count calls on it, each write stores a
\* value at least as large as the one stored just before.
C34_HitCountNeverDecreases ==
    [][\A i \in 1..Len(store) :
          Get(store'[i].metadata, "hit_count", 0) >= Get(store[i].metadata, "hit_count", 0)]_vars

\* the part of C34 that concerns two overlapping calls: a write never stores
\* less than the entry had when the call that makes it read the counter
C34_WriteIsAboveOwnReading ==
    [][\A w \in Workers : (pc[w] = "inc_update" /\ pc'[w] = "idle" /\ store' # store) =>
          \A i \in RowsWithId(loc[w].entry_id) :
             Get(store'[i].metadata, "hit_count", 0) > Get(loc[w].metadata, "hit_count", 0)]_vars


\* C35: get_instance() hands out no instance whose initialization did not
\* complete: after a first construction that failed in _connect or
\* _init_collection, a call that returns returns an initialized instance.
C35_HandedOutIsInitialized ==
    (ret.op = "get_instance" /\ ~ret.raised) => client.initialized

\* the part of C35 about MilvusClientSingleton(): a construction that returns
\* has run _connect and _init_collection to the end
C35_ConstructedIsInitialized ==
    (ret.op = "MilvusClientSingleton" /\ ~ret.raised) => client.initialized


\* C36: search_by_result returns a list that is not empty when the store
\* holds an entry whose result_vector is the embedding of result_text and
\* the index call succeeds.
C36_ExactResultIsFound ==
    (/\ ret.op = "search_by_result"
     /\ ret.embed_ok
     /\ ret.index_ok
     /\ \E i \in 1..Len(store) : store[i].result_vector = ret.result_vector)
        => ret.results # <<>>

\* what search_by_result returns in every case
C36_AlwaysEmpty ==
    ret.op = "search_by_result" => ret.results = <<>>


Max(a, b) == IF a > b THEN a ELSE b

\* C37: each time the listing is fetched and rendered, the page shown lies
\* between 1 and max(1, total_pages), whatever was navigated, viewed or
\* deleted before.
C37_PageWithinRange ==
    pc["w1"] = "nav" =>
        /\ 1 <= loc["w1"].page
        /\ loc["w1"].page <= Max(1, loc["w1"].total_pages)

\* the lower half of C37: the page shown is never below 1
C37_PageAtLeastOne ==
    pc["w1"] = "nav" => 1 <= loc["w1"].page


\* C37 on the fetches that found the collection not empty: the page shown is
\* one of the pages there are
C37_PageExists ==
    (pc["w1"] = "nav" /\ loc["w1"].total_pages >= 1) =>
        loc["w1"].page <= loc["w1"].total_pages


\* C38: the store is changed by the console only in a step in which
\* Confirm.ask was answered yes, and by drop_collection only when the name
\* typed was the collection's name as well; a name that does not match or a
\* confirmation that is declined leaves the store as it was.
C38_DestructionIsConfirmed ==
    [][store' # store =>
          /\ ret'.op = "console"
          /\ ret'.confirm
          /\ ret'.choice = "6" => ret'.typed = CollectionName]_vars

\* C38 witness: drop_collection has dropped a collection that held entries,
\* after the name was typed and the confirmation given
C38_Witness ==
    /\ ret.op = "console"
    /\ ret.choice = "6"
    /\ ret.typed = CollectionName
    /\ ret.confirm
    /\ ret.panel = "permanently_deleted"
    /\ store = <<>>
    /\ clock > 0

\* the step in which the confirmation of option 5 is answered yes
ResetConfirmed ==
    /\ pc["w1"] = "menu"
    /\ ret'.op = "console"
    /\ ret'.choice = "5"
    /\ ret'.confirm

\* C39: after a confirmed Reset Collection the console reports success and
\* is back at the main menu, where it keeps accepting commands; the reset
\* does not end the session.
C39_ResetReturnsToMenu ==
    [][ResetConfirmed => (ret'.panel = "successfully_reset" /\ pc'["w1"] = "menu")]_vars

\* what a confirmed Reset Collection does in every case: the session ends
\* with the error panel of main
C39_ResetEndsSession ==
    [][ResetConfirmed => (ret'.panel = "error" /\ pc'["w1"] = "failed")]_vars

\* the part of C39 that holds: a declined reset is back at the main menu
C39_DeclinedResetReturnsToMenu ==
    [][(pc["w1"] = "menu" /\ ret'.op = "console" /\ ret'.choice = "5" /\ ~ret'.confirm)
          => (pc'["w1"] = "menu" /\ store' = store)]_vars

====
